---- MODULE Spec2Model ----
(***************************************************************************)
(* Model of the generic ambient light sensor plugin                        *)
(* (src/envsensor/lightsensor.py) and of the light sensor drivers it       *)
(* drives (src/envsensor/_lightsensors.py), and of the air quality plugin  *)
(* with its poll thread (src/envsensor/sgp30.py).                          *)
(*                                                                         *)
(* Units.  Python floats are modelled by exact integers:                   *)
(*   - integration times are in milliseconds (0.2 s is 200);               *)
(*   - numbers read from the collectd config are in thousandths            *)
(*     (GainMargin 0.5 is 500, AnalogGain 1 is 1000, 0.2 s is 200);        *)
(*   - a saturation is the pair <<count + 1, max_count>>, compared by      *)
(*     integer arithmetic.                                                 *)
(***************************************************************************)
EXTENDS Integers, Sequences, FiniteSets, TLC

VARIABLES
  phase,            \* which collectd callback runs: "config", "init", "idle", "read", "terminated"
  configs,          \* lightsensor.configs
  instances,        \* lightsensor.instances
  channel_modes,    \* the class attribute channel_modes of every driver class
  broken_buses,     \* environment: buses on which no sensor answers the driver's probe
  light,            \* environment: the constant light level on the sensors (None: it varies freely)
  block,            \* history: the config block of the last do_config call (<<>>: no call yet)
  first,            \* history: per instance, what its first measure() under constant light
                    \* selected and returned (None: nothing yet)
  probe,            \* a function application checked on its own: arguments and result
  init_pos,         \* do_init: <<index in configs, index in config['Bus']>> of the next pair
  rd,               \* do_read: index in instances of the instance being dispatched (0: none)
  pc,               \* position inside Instance.measure() of instance rd
  calls,            \* sensor calls made so far by the running measure()
  results_estimate, \* measure(): local results_estimate
  results,          \* measure(): local results
  new_gains,        \* measure(): new_gain chosen for every group
  ret,              \* value returned by measure()
  sink,             \* vl.dispatch() calls of the running do_read()
  sgp30_configs,    \* sgp30.configs
  sensors,          \* sgp30.sensors: the SGP30 objects (bus, log_baseline, _ready)
  keep_polling,     \* sgp30.keep_polling
  data,             \* sgp30.data: the cached data_instance dicts
  data_lock,        \* sgp30.data_lock: "free", or the thread that acquired it
  poll_thread,      \* sgp30.poll_thread: "initial", its position in insert_dummy_read, "finished"
  sgp30_pc,         \* positions of collectd's calls: [main, read, shutdown]
  sgp30_idx,        \* loop indices: [poll: index in sensors, read: index in data], 0 outside
  sgp30_log         \* history: [polls, reads] started so far, [sink] which read() call
                    \* dispatched values of which iteration of the poll loop, [returned] the
                    \* sensors that returned a reading, [last] the get_air_quality() call of
                    \* the running iteration and whether its sensor had returned before

vars == <<phase, configs, instances, channel_modes, broken_buses, light, block, first, probe,
          init_pos, rd, pc,
          calls, results_estimate, results, new_gains, ret, sink,
          sgp30_configs, sensors, keep_polling, data, data_lock, poll_thread, sgp30_pc,
          sgp30_idx, sgp30_log>>

\* The variables of lightsensor.py
lightsensor_vars == <<phase, configs, instances, channel_modes, broken_buses, light, block, first,
                      probe, init_pos, rd, pc, calls, results_estimate, results, new_gains, ret,
                      sink>>

\* The variables of sgp30.py
sgp30_vars == <<sgp30_configs, sensors, keep_polling, data, data_lock, poll_thread, sgp30_pc,
                sgp30_idx, sgp30_log>>

measure_vars == <<pc, calls, results_estimate, results, new_gains, ret>>

\* The variables that record what happened and take no part in the program
watch_vars == <<block, first, probe>>

\* sgp30.py after its import: the module-level assignments
sgp30_loaded ==
  /\ sgp30_configs = <<>>
  /\ sensors = <<>>
  /\ keep_polling = TRUE
  /\ data = <<>>
  /\ data_lock = "free"
  /\ poll_thread = "initial"
  /\ sgp30_pc = [main |-> "config", read |-> "idle", shutdown |-> "idle"]
  /\ sgp30_idx = [poll |-> 0, read |-> 0]
  /\ sgp30_log = [polls |-> 0, reads |-> 0, sink |-> {}, returned |-> {}, last |-> <<>>]

----------------------------------------------------------------------------
(* Bounds of the model                                                     *)

MaxConfigs == 2

----------------------------------------------------------------------------
(* Helpers                                                                 *)

None == [t |-> "none"]

SetMax(S) == CHOOSE x \in S : \A y \in S : y <= x

SetMin(S) == CHOOSE x \in S : \A y \in S : x <= y

Range(s) == {s[i] : i \in 1..Len(s)}

\* dict(filter(pred, table.items()))
RestrictTable(table, keep) == [k \in keep |-> table[k]]

\* The empty dict / the empty mapping of channel names
EmptyMap == [k \in {} |-> None]

----------------------------------------------------------------------------
(* Drivers: src/envsensor/_lightsensors.py                                 *)

\* Insert every pair of `pairs` (iteration order) into a dict: a later pair with
\* the same key overrides an earlier one.
RECURSIVE DictFromPairs(_, _)
DictFromPairs(pairs, n) ==
  IF n = 0 THEN EmptyMap
  ELSE LET prev == DictFromPairs(pairs, n - 1)
           kv   == pairs[n]
       IN  [k \in DOMAIN prev \cup {kv[1]} |-> IF k = kv[1] THEN kv[2] ELSE prev[k]]

\* Python round() of the fraction num / den (ties go to the even integer)
Round(num, den) ==
  LET q == num \div den
      r == num % den
  IN  IF 2 * r < den THEN q
      ELSE IF 2 * r > den THEN q + 1
      ELSE IF q % 2 = 0 THEN q ELSE q + 1

\* sorted(list(itimes))
RECURSIVE SortedSeq(_)
SortedSeq(S) ==
  IF S = {} THEN <<>> ELSE LET m == SetMin(S) IN <<m>> \o SortedSeq(S \ {m})

\* The pairs of a comprehension that loops over itimes in the order given
ProductPairs_unsorted(agains, itimes) ==
  LET na  == Len(agains)
      mn  == SetMin(Range(itimes))
  IN  [i \in 1..(Len(itimes) * na) |->
         LET itime == itimes[((i - 1) \div na) + 1]
             again == agains[((i - 1) % na) + 1]
         IN  <<Round(again * itime, mn), <<again, itime>>>>]

\* The (key, value) pairs of the comprehension, in its iteration order: itime
\* in the outer loop (sorted), again in the inner loop (order of agains).
ProductPairs(agains, itimes) ==
  LET its == SortedSeq(Range(itimes))
      na  == Len(agains)
      mn  == SetMin(Range(itimes))
  IN  [i \in 1..(Len(its) * na) |->
         LET itime == its[((i - 1) \div na) + 1]
             again == agains[((i - 1) % na) + 1]
         IN  <<Round(again * itime, mn), <<again, itime>>>>]

_gain_table_from_product(agains, itimes) ==
  LET pairs == ProductPairs(agains, itimes) IN DictFromPairs(pairs, Len(pairs))

\* get_classes(lightsensors)
drivers == {"APDS_9250", "TSL2591", "VEML6075"}

APDS_9250_INT_TIME == 400

APDS_9250_again_table == {1, 3, 6, 9, 18}

\* max count + 1 of the 400 ms setting: (1 << 20) - 1 + 1
APDS_9250_max_count == 1048576

APDS_9250_channel_modes ==
  << [channels   |-> << <<"R", TRUE>>, <<"G", TRUE>>, <<"B", TRUE>>, <<"IR", TRUE>>,
                        <<"lux", FALSE>>, <<"CCT", FALSE>>, <<"umol-m2s", FALSE>> >>,
      gain_table |-> [k \in APDS_9250_again_table |-> <<k, APDS_9250_INT_TIME>>]] >>

TSL2591_itime_table == <<100, 200, 300, 400, 500, 600>>

TSL2591_again_reg_table == <<1, 25, 428, 9876>>

\* max_count = (1 << 16) - 1
TSL2591_max_count == 65535

TSL2591_channel_modes ==
  << [channels   |-> << <<"Clear", TRUE>>, <<"IR", TRUE>>, <<"lux", FALSE>>,
                        <<"umol-m2s", FALSE>> >>,
      gain_table |-> _gain_table_from_product(TSL2591_again_reg_table, TSL2591_itime_table)] >>

VEML6075_itime_table == {50, 100, 200, 400, 800}

VEML6075_min_itime == SetMin(VEML6075_itime_table)

\* 1 << 16
VEML6075_max_count == 65536

VEML6075_channel_modes ==
  << [channels   |-> << <<"UVA", TRUE>>, <<"UVB", TRUE>>, <<"UVI", FALSE>> >>,
      gain_table |-> (1 :> <<1, 50>> @@ 2 :> <<1, 100>> @@ 4 :> <<1, 200>>
                      @@ 8 :> <<1, 400>> @@ 16 :> <<1, 800>>)] >>

\* The channel_modes class attribute as written in the source of each driver
DeclaredChannelModes(d) ==
  CASE d = "APDS_9250" -> APDS_9250_channel_modes
    [] d = "TSL2591"   -> TSL2591_channel_modes
    [] d = "VEML6075"  -> VEML6075_channel_modes

ChannelNames(group) == [i \in 1..Len(group.channels) |-> group.channels[i][1]]

----------------------------------------------------------------------------
(* collectd config values.  A value carries its Python type; n is the      *)
(* number in thousandths.                                                  *)

StrVal(s)   == [t |-> "str",   s |-> s,  n |-> 0,        b |-> FALSE]

IntVal(i)   == [t |-> "int",   s |-> "", n |-> 1000 * i, b |-> FALSE]

FloatVal(m) == [t |-> "float", s |-> "", n |-> m,        b |-> FALSE]

BoolVal(b)  == [t |-> "bool",  s |-> "", n |-> 0,        b |-> b]

Node(k, vals) == [key |-> k, values |-> vals]

----------------------------------------------------------------------------
(* do_config: src/envsensor/lightsensor.py                                 *)

\* config_keys: key in collectd.conf -> <<expected type, append, default>>
config_keys ==
  [Driver             |-> <<"driver",             FALSE, None>>,
   Bus                |-> <<"bus",                TRUE,  None>>,
   Address            |-> <<"integer_expression", FALSE, None>>,
   LogRadiometric     |-> <<"boolean",            FALSE, BoolVal(TRUE)>>,
   LogPerceptive      |-> <<"boolean",            FALSE, BoolVal(TRUE)>>,
   LogSaturation      |-> <<"boolean",            FALSE, BoolVal(FALSE)>>,
   LogIntegrationTime |-> <<"boolean",            FALSE, BoolVal(FALSE)>>,
   LogAnalogGain      |-> <<"boolean",            FALSE, BoolVal(FALSE)>>,
   LogTotalGain       |-> <<"boolean",            FALSE, BoolVal(FALSE)>>,
   MaxIntegrationTime |-> <<"number",             FALSE, None>>,
   GainMargin         |-> <<"number",             FALSE, FloatVal(500)>>,
   MaxSaturation      |-> <<"fraction",           FALSE, FloatVal(900)>>,
   AnalogGain         |-> <<"number",             FALSE, None>>,
   IntegrationTime    |-> <<"number",             FALSE, None>>]

\* str.lower() on the key spellings that occur in the config blocks
lower(s) ==
  CASE s \in {"Driver", "driver", "DRIVER"}  -> "driver"
    [] s \in {"Bus", "bus"}                  -> "bus"
    [] s = "Address"                         -> "address"
    [] s = "LogRadiometric"                  -> "logradiometric"
    [] s = "LogPerceptive"                   -> "logperceptive"
    [] s = "LogSaturation"                   -> "logsaturation"
    [] s = "LogIntegrationTime"              -> "logintegrationtime"
    [] s = "LogAnalogGain"                   -> "loganaloggain"
    [] s = "LogTotalGain"                    -> "logtotalgain"
    [] s = "MaxIntegrationTime"              -> "maxintegrationtime"
    [] s \in {"GainMargin", "gainmargin"}    -> "gainmargin"
    [] s = "MaxSaturation"                   -> "maxsaturation"
    [] s = "AnalogGain"                      -> "analoggain"
    [] s = "IntegrationTime"                 -> "integrationtime"
    [] s = "Buses"                           -> "buses"
    [] s = "Baseline"                        -> "baseline"
    [] s = "LogBaseline"                     -> "logbaseline"
    [] s = "Foo"                             -> "foo"
    [] OTHER                                 -> s

\* config_keys_case_insensitive: the variable name of a lower-case key
VariableOfKey(key) ==
  IF \E k \in DOMAIN config_keys : lower(k) = key
  THEN CHOOSE k \in DOMAIN config_keys : lower(k) = key
  ELSE "?"

\* replace('-', '_').replace(' ', '_') on the driver spellings that occur
sanitize_driver_name(driver) ==
  IF driver \in {"APDS-9250", "APDS 9250"} THEN "APDS_9250" ELSE driver

\* Strings int(val, 0) converts
IntLiterals == {"0x29", "41"}

\* Strings that contain a '.'
DottedStrings == {"0.29"}

\* TRUE iff check_value_by_type(val, expected_type) returns without raising
check_value_by_type(val, expected_type) ==
  CASE expected_type = "bus"     -> val.t = "str"
    [] expected_type = "driver"  -> val.t = "str" /\ sanitize_driver_name(val.s) \in drivers
    [] expected_type = "integer_expression" ->
         \* isinstance(True, int) holds; int(val, 0) raises TypeError unless val is a str
         /\ val.t \in {"int", "bool", "str"}
         /\ ~(val.t = "str" /\ val.s \in DottedStrings)
         /\ val.t = "str"
         /\ val.s \in IntLiterals
    [] expected_type = "number"   -> val.t \in {"float", "int", "bool"}
    [] expected_type = "fraction" -> val.t = "float" /\ ~(val.n > 1000) /\ ~(val.n < 0)
    [] expected_type = "boolean"  -> val.t = "bool"
    [] OTHER                      -> FALSE

\* The Python value of a checked config value, as the model stores it
Stored(val) ==
  CASE val.t = "str"  -> val.s
    [] val.t = "bool" -> val.b
    [] OTHER          -> val.n

\* The number Python arithmetic and comparison take a value that passed the
\* 'number' check for: True is 1 and False is 0 (thousandths)
AsNumber(val) ==
  IF val.t = "bool" THEN (IF val.b THEN 1000 ELSE 0) ELSE val.n

\* instance_config after "Set defaults and prepare list for appendable values"
DefaultConfig ==
  LET present == {k \in DOMAIN config_keys : config_keys[k][2] \/ config_keys[k][3] # None}
  IN  [k \in present |-> IF config_keys[k][2] THEN <<>> ELSE Stored(config_keys[k][3])]

\* One iteration of "for node in config.children": [err, cfg]
ParseNode(acc, node) ==
  LET key  == lower(node.key)
      name == VariableOfKey(key)
  IN  IF acc.err THEN acc
      ELSE IF name \notin DOMAIN config_keys THEN [err |-> TRUE, cfg |-> acc.cfg]
      ELSE IF Len(node.values) # 1 THEN [err |-> TRUE, cfg |-> acc.cfg]
      ELSE IF ~check_value_by_type(node.values[1], config_keys[name][1])
           THEN [err |-> TRUE, cfg |-> acc.cfg]
      ELSE LET val == IF config_keys[name][1] = "number"
                      THEN AsNumber(node.values[1])
                      ELSE Stored(node.values[1])
               new == IF config_keys[name][2] THEN Append(acc.cfg[name], val) ELSE val
           IN  [err |-> FALSE,
                cfg |-> [k \in DOMAIN acc.cfg \cup {name} |->
                           IF k = name THEN new ELSE acc.cfg[k]]]

RECURSIVE ParseChildren(_, _)
ParseChildren(children, n) ==
  IF n = 0 THEN [err |-> FALSE, cfg |-> DefaultConfig]
  ELSE ParseNode(ParseChildren(children, n - 1), children[n])

\* The whole of do_config on one block: [err, cfg]; err means do_config raised
ParseConfig(children) ==
  LET parsed == ParseChildren(children, Len(children))
  IN  IF parsed.err THEN parsed
      ELSE IF Len(parsed.cfg["Bus"]) > 0 /\ "Driver" \in DOMAIN parsed.cfg
           THEN [err |-> FALSE,
                 cfg |-> [parsed.cfg EXCEPT !["Driver"] = sanitize_driver_name(@)]]
           ELSE [err |-> TRUE, cfg |-> parsed.cfg]

\* The config blocks collectd hands to do_config
ConfigBlocks ==
  { <<Node("Driver", <<StrVal("TSL2591")>>), Node("Bus", <<StrVal("i2c-0")>>)>>,
    <<Node("Driver", <<StrVal("TSL2591")>>), Node("Bus", <<StrVal("i2c-1")>>),
      Node("IntegrationTime", <<FloatVal(200)>>)>>,
    <<Node("Driver", <<StrVal("TSL2591")>>), Node("Bus", <<StrVal("i2c-1")>>),
      Node("AnalogGain", <<IntVal(1)>>)>>,
    <<Node("driver", <<StrVal("APDS-9250")>>), Node("Bus", <<StrVal("i2c-0")>>)>>,
    <<Node("Driver", <<StrVal("TSL2591")>>), Node("Bus", <<StrVal("i2c-1")>>),
      Node("MaxIntegrationTime", <<BoolVal(TRUE)>>)>>,
    <<Node("Driver", <<StrVal("APDS_9250")>>), Node("Bus", <<StrVal("i2c-1")>>),
      Node("Bus", <<StrVal("i2c-0")>>), Node("IntegrationTime", <<FloatVal(200)>>)>>,
    <<Node("Driver", <<StrVal("VEML6075")>>), Node("Bus", <<StrVal("i2c-0")>>),
      Node("MaxIntegrationTime", <<FloatVal(200)>>), Node("gainmargin", <<IntVal(0)>>),
      Node("MaxSaturation", <<FloatVal(500)>>), Node("LogPerceptive", <<BoolVal(FALSE)>>),
      Node("LogTotalGain", <<BoolVal(TRUE)>>)>>,
    <<Node("Driver", <<StrVal("TSL2591")>>)>>,
    <<Node("Bus", <<StrVal("i2c-0")>>)>>,
    <<Node("Driver", <<StrVal("TSL2591")>>), Node("Bus", <<StrVal("i2c-0")>>),
      Node("Foo", <<IntVal(1)>>)>>,
    <<Node("Driver", <<StrVal("TSL2591")>>), Node("Bus", <<StrVal("i2c-0"), StrVal("i2c-1")>>)>>,
    <<Node("Driver", <<StrVal("TSL2591")>>), Node("Bus", <<StrVal("i2c-0")>>),
      Node("MaxSaturation", <<IntVal(1)>>)>>,
    <<Node("Driver", <<StrVal("NoSuchDriver")>>), Node("Bus", <<StrVal("i2c-0")>>)>> }

Buses == {"i2c-0", "i2c-1"}

do_config(children) ==
  /\ phase = "config"
  /\ Len(configs) < MaxConfigs
  /\ LET parsed == ParseConfig(children)
     IN  IF parsed.err
         THEN /\ phase' = "terminated"
              /\ UNCHANGED configs
         ELSE /\ configs' = Append(configs, parsed.cfg)
              /\ UNCHANGED phase
  /\ block' = children
  /\ UNCHANGED <<instances, channel_modes, broken_buses, sgp30_vars, light, first, probe, init_pos, rd, sink>>
  /\ UNCHANGED measure_vars

----------------------------------------------------------------------------
(* Instance.__init__ and do_init: src/envsensor/lightsensor.py             *)

\* The attributes a driver's __init__ leaves on the sensor object; 0 stands for
\* an attribute that is not set yet (APDS_9250.again, TSL2591.multiplier,
\* VEML6075.itime with uvconf = None).
SensorInit(d) ==
  IF d = "TSL2591" THEN [again |-> 1, itime |-> 100, multiplier |-> 0]
  ELSE [again |-> 0, itime |-> 0, multiplier |-> 0]

\* Filters of which the MaxIntegrationTime one drops, in one application, only
\* the entries of the longest integration time that is above the ceiling
FilterGainTable_onepass(table, config) ==
  LET t1 == IF "AnalogGain" \in DOMAIN config
            THEN RestrictTable(table,
                   {k \in DOMAIN table : 1000 * table[k][1] = config["AnalogGain"]})
            ELSE table
      t2 == IF "IntegrationTime" \in DOMAIN config
            THEN RestrictTable(t1, {k \in DOMAIN t1 : t1[k][2] = config["IntegrationTime"]})
            ELSE t1
      longest == IF DOMAIN t2 = {} THEN 0 ELSE SetMax({t2[k][2] : k \in DOMAIN t2})
      t3 == IF "MaxIntegrationTime" \in DOMAIN config /\ longest > config["MaxIntegrationTime"]
            THEN RestrictTable(t2, {k \in DOMAIN t2 : t2[k][2] < longest})
            ELSE t2
  IN  t3

\* The three filters of Instance.__init__ applied to one gain_table, in order
FilterGainTable(table, config) ==
  LET t1 == IF "AnalogGain" \in DOMAIN config
            THEN RestrictTable(table,
                   {k \in DOMAIN table : 1000 * table[k][1] = config["AnalogGain"]})
            ELSE table
      t2 == IF "IntegrationTime" \in DOMAIN config
            THEN RestrictTable(t1, {k \in DOMAIN t1 : t1[k][2] = config["IntegrationTime"]})
            ELSE t1
      t3 == IF "MaxIntegrationTime" \in DOMAIN config
            THEN RestrictTable(t2, {k \in DOMAIN t2 : t2[k][2] <= config["MaxIntegrationTime"]})
            ELSE t2
  IN  t3

\* Index of the first group the filter loop raises on (0: it does not raise)
FirstEmptyGroup(groups, config) ==
  LET empty == {g \in 1..Len(groups) :
                  DOMAIN FilterGainTable(groups[g].gain_table, config) = {}}
  IN  IF empty = {} THEN 0 ELSE SetMin(empty)

\* The list get_channel_modes() returned, after the filter loop has run on it
\* (to its end, or to the group it raised on): the loop assigns to the dicts of
\* that list.
FilteredGroups(groups, config) ==
  LET fe == FirstEmptyGroup(groups, config)
  IN  [g \in 1..Len(groups) |->
         IF fe = 0 \/ g <= fe
         THEN [groups[g] EXCEPT !.gain_table = FilterGainTable(@, config)]
         ELSE groups[g]]

\* group['gain_table'][1] of "Build a dict of channel properties" raises KeyError
MissingKeyOne(groups) ==
  \E g \in 1..Len(groups) : Len(groups[g].channels) > 0 /\ 1 \notin DOMAIN groups[g].gain_table

AllChannels(groups) ==
  UNION {Range(ChannelNames(groups[g])) : g \in 1..Len(groups)}

\* The last group that lists the channel (a later group overwrites the dict entry)
GroupOf(groups, name) ==
  SetMax({g \in 1..Len(groups) : name \in Range(ChannelNames(groups[g]))})

IsRadiometricIn(group, name) ==
  LET i == CHOOSE i \in 1..Len(group.channels) : group.channels[i][1] = name
  IN  group.channels[i][2]

\* Instance(config, bus) with the class attributes cm and the sensor answering
\* or not: [raised, channel_modes, instance].  get_channel_modes() returns the
\* driver's class attribute itself, so the filter loop writes to cm[driver].
Instance__init__(config, bus, cm, answers) ==
  LET d      == config["Driver"]
      groups == FilteredGroups(cm[d], config)
      cm2    == [cm EXCEPT ![d] = groups]
  IN  IF ~answers
      THEN [raised |-> TRUE, channel_modes |-> cm, instance |-> None]
      ELSE IF FirstEmptyGroup(cm[d], config) # 0 \/ MissingKeyOne(groups)
      THEN [raised |-> TRUE, channel_modes |-> cm2, instance |-> None]
      ELSE [raised |-> FALSE, channel_modes |-> cm2,
            instance |->
              [config         |-> config,
               bus            |-> bus,
               driver_name    |-> d,
               sensor         |-> SensorInit(d),
               is_radiometric |-> [n \in AllChannels(groups) |->
                                     IsRadiometricIn(groups[GroupOf(groups, n)], n)],
               min_itime      |-> [n \in AllChannels(groups) |->
                                     groups[GroupOf(groups, n)].gain_table[1][2]]]]

\* self.channel_modes of an instance: the list its driver class holds
InstanceChannelModes(inst) == channel_modes[inst.driver_name]

\* The (config, bus) pair after pos in the two loops of do_init
NextInitPos(pos) ==
  IF pos[2] < Len(configs[pos[1]]["Bus"]) THEN <<pos[1], pos[2] + 1>> ELSE <<pos[1] + 1, 1>>

\* collectd calls the init callback once, after the last config block
do_init_begin ==
  /\ phase = "config"
  /\ phase' = "init"
  /\ init_pos' = <<1, 1>>
  /\ UNCHANGED <<configs, instances, channel_modes, broken_buses, sgp30_vars, light, watch_vars, rd, sink>>
  /\ UNCHANGED measure_vars

\* An iteration without the try/except: the exception of Instance() leaves do_init
do_init_step_propagates ==
  /\ phase = "init"
  /\ init_pos[1] <= Len(configs)
  /\ LET config == configs[init_pos[1]]
         bus    == config["Bus"][init_pos[2]]
         made   == Instance__init__(config, bus, channel_modes, bus \notin broken_buses)
     IN  /\ channel_modes' = made.channel_modes
         /\ instances' = IF made.raised THEN instances ELSE Append(instances, made.instance)
         /\ phase' = IF made.raised THEN "terminated" ELSE phase
  /\ init_pos' = NextInitPos(init_pos)
  /\ UNCHANGED <<configs, broken_buses, sgp30_vars, light, watch_vars, rd, sink>>
  /\ UNCHANGED measure_vars

\* One iteration of the inner loop of do_init: try Instance(instance_config, bus)
do_init_step ==
  /\ phase = "init"
  /\ init_pos[1] <= Len(configs)
  /\ LET config == configs[init_pos[1]]
         bus    == config["Bus"][init_pos[2]]
         made   == Instance__init__(config, bus, channel_modes, bus \notin broken_buses)
     IN  /\ channel_modes' = made.channel_modes
         /\ instances' = IF made.raised THEN instances ELSE Append(instances, made.instance)
  /\ init_pos' = NextInitPos(init_pos)
  /\ UNCHANGED <<phase, configs, broken_buses, sgp30_vars, light, watch_vars, rd, sink>>
  /\ UNCHANGED measure_vars

do_init_end ==
  /\ phase = "init"
  /\ init_pos[1] > Len(configs)
  /\ phase' = "idle"
  /\ UNCHANGED <<configs, instances, channel_modes, broken_buses, sgp30_vars, light, watch_vars, init_pos,
                 rd, sink>>
  /\ UNCHANGED measure_vars

----------------------------------------------------------------------------
(* The drivers' set_channel_mode and read_channels:                        *)
(* src/envsensor/_lightsensors.py                                          *)

\* TRUE iff set_channel_mode(name, again, itime) passes its argument checks.
\* The channel names are read from the class attribute.
SetChannelModeValid(d, name, again, itime) ==
  /\ name \in Range(ChannelNames(channel_modes[d][1]))
  /\ CASE d = "APDS_9250" -> again \in APDS_9250_again_table /\ itime = APDS_9250_INT_TIME
       [] d = "TSL2591"   -> /\ again \in Range(TSL2591_again_reg_table)
                             /\ itime \in Range(TSL2591_itime_table)
       [] d = "VEML6075"  -> again = 1 /\ itime \in VEML6075_itime_table

\* The sensor object after a set_channel_mode that passed its checks
set_channel_mode(d, sensor, again, itime) ==
  CASE d = "APDS_9250" -> [sensor EXCEPT !.again = again]
    [] d = "TSL2591"   ->
         [again |-> again, itime |-> itime,
          multiplier |-> Round(again * itime, SetMin(Range(TSL2591_itime_table)))]
    [] d = "VEML6075"  -> [sensor EXCEPT !.itime = itime]

\* TRUE iff the driver's set_channel_mode writes to the bus (VEML6075 keeps
\* the setting for the trigger of read_channels)
WritesBus(d) == d \in {"APDS_9250", "TSL2591"}

\* The sensor object after a set_channel_mode whose bus write raised:
\* APDS_9250 assigns self.again before the write, TSL2591 assigns after it
set_channel_mode_raises(d, sensor, again) ==
  IF d = "APDS_9250" THEN [sensor EXCEPT !.again = again] ELSE sensor

\* One entry of the mapping read_channels returns.  value stands for the float
\* the driver computes: the counts it is computed from and the gain it is
\* divided by.
Entry(value, sat, again, itime) ==
  [value |-> value, saturation |-> sat, again |-> again, itime |-> itime]

\* a <= b for saturations <<count, max_count>>
SatLE(a, b) == IF a[2] = b[2] THEN a[1] <= b[1] ELSE a[1] * b[2] <= b[1] * a[2]

\* max([...]) of a set of saturations
SatMax(S) == CHOOSE x \in S : \A y \in S : SatLE(y, x)

\* max(x, 0)
ClipZero(x) == IF x < 0 THEN 0 ELSE x

\* An APDS_9250.read_channels whose perceptive channels report the saturation
\* of the green channel, which lux is computed from
APDS_9250_read_channels_green(sensor, raw) ==
  LET max_count == APDS_9250_max_count
      sat_r  == <<raw[1] + 1, max_count>>
      sat_g  == <<raw[2] + 1, max_count>>
      sat_b  == <<raw[3] + 1, max_count>>
      sat_ir == <<raw[4] + 1, max_count>>
      sat_p  == sat_g
      a      == sensor.again
      it     == APDS_9250_INT_TIME
  IN  [n \in {"R", "G", "B", "IR", "lux", "CCT", "umol-m2s"} |->
         CASE n = "R"   -> Entry(<<raw[1], a>>, sat_r, a, it)
           [] n = "G"   -> Entry(<<raw[2], a>>, sat_g, a, it)
           [] n = "B"   -> Entry(<<raw[3], a>>, sat_b, a, it)
           [] n = "IR"  -> Entry(<<raw[4], a>>, sat_ir, a, it)
           [] n = "lux" -> Entry(<<raw[2], raw[4], a>>, sat_p, a, it)
           [] n = "CCT" -> Entry(<<raw[1], raw[2], raw[3]>>, sat_p, a, it)
           [] OTHER     -> Entry(<<raw[1], raw[2], raw[3], a>>, sat_p, a, it)]

\* APDS_9250.read_channels with raw = <<r_count, g_count, b_count, ir_count>>
APDS_9250_read_channels(sensor, raw) ==
  LET max_count == APDS_9250_max_count
      sat_r  == <<raw[1] + 1, max_count>>
      sat_g  == <<raw[2] + 1, max_count>>
      sat_b  == <<raw[3] + 1, max_count>>
      sat_ir == <<raw[4] + 1, max_count>>
      sat_p  == SatMax({sat_r, sat_g, sat_b, sat_ir})
      a      == sensor.again
      it     == APDS_9250_INT_TIME
  IN  [n \in {"R", "G", "B", "IR", "lux", "CCT", "umol-m2s"} |->
         CASE n = "R"   -> Entry(<<raw[1], a>>, sat_r, a, it)
           [] n = "G"   -> Entry(<<raw[2], a>>, sat_g, a, it)
           [] n = "B"   -> Entry(<<raw[3], a>>, sat_b, a, it)
           [] n = "IR"  -> Entry(<<raw[4], a>>, sat_ir, a, it)
           [] n = "lux" -> Entry(<<raw[2], raw[4], a>>, sat_p, a, it)
           [] n = "CCT" -> Entry(<<raw[1], raw[2], raw[3]>>, sat_p, a, it)
           [] OTHER     -> Entry(<<raw[1], raw[2], raw[3], a>>, sat_p, a, it)]

\* TSL2591.read_channels with raw = <<clear, ir>>
TSL2591_read_channels(sensor, raw) ==
  LET max_count == TSL2591_max_count
      sat_clear == <<raw[1] + 1, max_count>>
      sat_ir    == <<raw[2] + 1, max_count>>
      sat_perceptive == SatMax({sat_clear, sat_ir})
      a  == sensor.again
      it == sensor.itime
      m  == sensor.multiplier
  IN  [n \in {"Clear", "IR", "lux", "umol-m2s"} |->
         CASE n = "Clear" -> Entry(<<raw[1], m>>, sat_clear, a, it)
           [] n = "IR"    -> Entry(<<raw[2], m>>, sat_ir, a, it)
           [] n = "lux"   -> Entry(<<ClipZero(100 * raw[1] - 164 * raw[2]), m>>,
                                   sat_perceptive, a, it)
           [] OTHER       -> Entry(<<raw[1], raw[2], m>>, sat_perceptive, a, it)]

\* VEML6075.read_channels with raw = <<uva, uvb, uvcomp1, uvcomp2>> (uvd = 0)
VEML6075_read_channels(sensor, raw) ==
  LET max_count == VEML6075_max_count
      uvd_sat     == <<0 + 1, max_count>>
      uvcomp1_sat == <<raw[3] + 1, max_count>>
      uvcomp2_sat == <<raw[4] + 1, max_count>>
      uva_sat == SatMax({<<raw[1] + 1, max_count>>, uvd_sat, uvcomp1_sat, uvcomp2_sat})
      uvb_sat == SatMax({<<raw[2] + 1, max_count>>, uvd_sat, uvcomp1_sat, uvcomp2_sat})
      uva == ClipZero(100 * raw[1] - (222 * raw[3] + 117 * raw[4]))
      uvb == ClipZero(100 * raw[2] - (295 * raw[3] + 158 * raw[4]))
      it  == sensor.itime
  IN  [n \in {"UVA", "UVB", "UVI"} |->
         CASE n = "UVA" -> Entry(<<uva, it>>, uva_sat, 1, it)
           [] n = "UVB" -> Entry(<<uvb, it>>, uvb_sat, 1, it)
           [] OTHER     -> Entry(<<uva, uvb>>, SatMax({uva_sat, uvb_sat}), 1, it)]

read_channels(d, sensor, raw) ==
  CASE d = "APDS_9250" -> APDS_9250_read_channels(sensor, raw)
    [] d = "TSL2591"   -> TSL2591_read_channels(sensor, raw)
    [] d = "VEML6075"  -> VEML6075_read_channels(sensor, raw)

\* Register contents a measurement may leave in the sensor: dark, dim, one
\* channel close to full scale, every channel at full scale.
RawReadings(d) ==
  CASE d = "APDS_9250" -> { <<0, 0, 0, 0>>, <<100000, 50000, 20000, 10>>,
                            <<1000000, 100, 100, 100>>, <<1048575, 1048575, 1048575, 1048575>> }
    [] d = "TSL2591"   -> { <<0, 0>>, <<100, 50>>, <<62000, 3000>>, <<65535, 65535>> }
    [] d = "VEML6075"  -> { <<0, 0, 0, 0>>, <<5000, 3000, 100, 50>>,
                            <<60000, 100, 0, 0>>, <<65535, 65535, 65535, 65535>> }

\* The constant light levels: the count the first channel reads at the
\* gain_table[1] setting (dark, dim, moderate, bright)
Lights == {[t |-> "level", n |-> l] : l \in {0, 10, 2000, 40000}}

\* The total gain of the setting the sensor object is in, relative to gain_table[1]
TotalGain(d, sensor) ==
  CASE d = "APDS_9250" -> sensor.again
    [] d = "TSL2591"   -> sensor.multiplier
    [] d = "VEML6075"  -> sensor.itime \div VEML6075_min_itime

\* A count of the linear sensor: proportional to light and gain, held at full scale
LinearCount(base, gain, full_scale) ==
  IF base * gain > full_scale THEN full_scale ELSE base * gain

\* The registers of a linear sensor under the constant light level l
LinearRaw(d, sensor, l) ==
  LET gain == TotalGain(d, sensor)
  IN  CASE d = "APDS_9250" ->
             LET fs == APDS_9250_max_count - 1
             IN  <<LinearCount(l, gain, fs), LinearCount(l \div 2, gain, fs),
                   LinearCount(l \div 4, gain, fs), LinearCount(l \div 8, gain, fs)>>
        [] d = "TSL2591" ->
             <<LinearCount(l, gain, TSL2591_max_count),
               LinearCount(l \div 3, gain, TSL2591_max_count)>>
        [] d = "VEML6075" ->
             LET fs == VEML6075_max_count - 1
             IN  <<LinearCount(l, gain, fs), LinearCount(l \div 2, gain, fs),
                   LinearCount(l \div 16, gain, fs), LinearCount(l \div 16, gain, fs)>>

\* What the registers of the instance's sensor may hold after a measurement
Readings(inst) ==
  IF light = None THEN RawReadings(inst.driver_name)
  ELSE {LinearRaw(inst.driver_name, inst.sensor, light.n)}

----------------------------------------------------------------------------
(* Instance.measure, Instance.dispatch and do_read:                        *)
(* src/envsensor/lightsensor.py                                            *)

SetCall(name, again, itime) ==
  [op |-> "set_channel_mode", name |-> name, again |-> again, itime |-> itime]

ReadCall == [op |-> "read_channels", name |-> "", again |-> 0, itime |-> 0]

\* "for group in self.channel_modes: ... self.sensor.set_channel_mode(first
\* channel, *group['gain_table'][keys[g]])" over the first n groups:
\* [sensor, calls, raised].  A missing key (KeyError) or a rejected argument
\* (ValueError) ends the loop with the exception.
RECURSIVE SetLoop(_, _, _, _, _)
SetLoop(d, sensor, groups, keys, n) ==
  IF n = 0 THEN [sensor |-> sensor, calls |-> <<>>, raised |-> FALSE]
  ELSE LET prev  == SetLoop(d, sensor, groups, keys, n - 1)
           table == groups[n].gain_table
           name  == ChannelNames(groups[n])[1]
       IN  IF prev.raised THEN prev
           ELSE IF keys[n] \notin DOMAIN table THEN [prev EXCEPT !.raised = TRUE]
           ELSE IF ~SetChannelModeValid(d, name, table[keys[n]][1], table[keys[n]][2])
                THEN [prev EXCEPT !.raised = TRUE]
           ELSE [sensor |-> set_channel_mode(d, prev.sensor, table[keys[n]][1],
                                             table[keys[n]][2]),
                 calls  |-> Append(prev.calls,
                                   SetCall(name, table[keys[n]][1], table[keys[n]][2])),
                 raised |-> FALSE]

\* A comparison that leaves the margin out: gain <= 1. / max_saturation
GainFits_nomargin(gain, sat, margin) ==
  gain <= (sat[2] * 1000) \div (sat[1] * 1000)

\* gain <= 1. / max_saturation / (1 + GainMargin), margin in thousandths.  For
\* the integer gain this is gain <= floor(max_count * 1000 / (count * (1000 + margin))).
GainFits(gain, sat, margin) ==
  gain <= (sat[2] * 1000) \div (sat[1] * (1000 + margin))

\* max_saturation of a group in the estimate
GroupMaxSaturation(group, estimate) ==
  SatMax({estimate[n].saturation : n \in Range(ChannelNames(group))})

\* A selection that takes the smallest fitting key instead of the largest
NewGain_smallest(group, estimate, config) ==
  LET max_saturation == GroupMaxSaturation(group, estimate)
      fitting == {gain \in DOMAIN group.gain_table :
                    GainFits(gain, max_saturation, config["GainMargin"])}
  IN  IF fitting = {} THEN 1 ELSE SetMin(fitting)

\* A selection from the largest saturation of the whole estimate
NewGain_global(group, estimate, config) ==
  LET max_saturation == SatMax({estimate[n].saturation : n \in DOMAIN estimate})
      fitting == {gain \in DOMAIN group.gain_table :
                    GainFits(gain, max_saturation, config["GainMargin"])}
  IN  IF fitting = {} THEN 1 ELSE SetMax(fitting)

\* new_gain of one group
NewGain(group, estimate, config) ==
  LET max_saturation == GroupMaxSaturation(group, estimate)
      fitting == {gain \in DOMAIN group.gain_table :
                    GainFits(gain, max_saturation, config["GainMargin"])}
  IN  IF fitting = {} THEN 1 ELSE SetMax(fitting)

\* The new_gain of every group: the loop "for group in self.channel_modes"
SelectGains(groups, estimate, config) ==
  [g \in 1..Len(groups) |-> NewGain(groups[g], estimate, config)]

\* saturation > self.config['MaxSaturation'] (thousandths)
Saturated(sat, max_saturation) == sat[1] * 1000 > max_saturation * sat[2]

\* A guard that takes the value and the saturation of the estimate and leaves
\* the setting of the entry as it is
RevertSaturated_value(refined, estimate, config) ==
  [name \in DOMAIN refined |->
     IF Saturated(refined[name].saturation, config["MaxSaturation"])
     THEN [refined[name] EXCEPT !.value = estimate[name].value,
                                !.saturation = estimate[name].saturation]
     ELSE refined[name]]

\* A guard that puts the saturation that made it revert into the estimate entry
RevertSaturated_flagged(refined, estimate, config) ==
  [name \in DOMAIN refined |->
     IF Saturated(refined[name].saturation, config["MaxSaturation"])
     THEN [estimate[name] EXCEPT !.saturation = refined[name].saturation]
     ELSE refined[name]]

\* A guard that never reverts
RevertSaturated_never(refined, estimate, config) == refined

\* "Check saturated channels (due to dynamics) and revert them"
RevertSaturated(refined, estimate, config) ==
  [name \in DOMAIN refined |->
     IF Saturated(refined[name].saturation, config["MaxSaturation"])
     THEN estimate[name]
     ELSE refined[name]]

\* A first loop that leaves a sensor that is configured already as it is
EstimateSetLoop_keep(inst, groups) ==
  IF inst.sensor.again # 0 /\ inst.sensor.itime # 0 /\ inst.sensor.multiplier # 0
  THEN [sensor |-> inst.sensor, calls |-> <<>>, raised |-> FALSE]
  ELSE SetLoop(inst.driver_name, inst.sensor, groups, [g \in 1..Len(groups) |-> 1],
               Len(groups))

\* The first loop of measure(): every group to its gain_table[1] setting
EstimateSetLoop(inst, groups) ==
  SetLoop(inst.driver_name, inst.sensor, groups, [g \in 1..Len(groups) |-> 1], Len(groups))

\* A measure() that always makes the second pass
SkipSecondPass_never(gains) == FALSE

\* A measure() that never makes the second pass
SkipSecondPass_always(gains) == TRUE

\* max_new_gain == 1, with max_new_gain the maximum of 1 and every new_gain
SkipSecondPass(gains) == SetMax({1} \cup Range(gains)) = 1

ClearLocals ==
  /\ pc' = "none"
  /\ calls' = <<>>
  /\ results_estimate' = EmptyMap
  /\ results' = EmptyMap
  /\ new_gains' = <<>>
  /\ ret' = EmptyMap

\* The except clause of do_read: log, go on with the next instance
DispatchFailed ==
  /\ rd' = rd + 1
  /\ ClearLocals

InMeasure == phase = "read" /\ rd \in 1..Len(instances)

do_read_begin ==
  /\ phase = "idle"
  /\ phase' = "read"
  /\ rd' = 1
  /\ sink' = <<>>
  /\ UNCHANGED <<configs, instances, channel_modes, broken_buses, sgp30_vars, light, watch_vars, init_pos>>
  /\ UNCHANGED measure_vars

\* measure(), "Estimate proper setting": the loop of set_channel_mode calls
measure_estimate_set ==
  /\ InMeasure
  /\ pc = "none"
  /\ LET inst   == instances[rd]
         groups == InstanceChannelModes(inst)
         loop   == EstimateSetLoop(inst, groups)
     IN  /\ instances' = [instances EXCEPT ![rd].sensor = loop.sensor]
         /\ pc' = IF loop.raised THEN "raised" ELSE "read_estimate"
         /\ calls' = loop.calls
         /\ UNCHANGED <<rd, results_estimate, results, new_gains, ret>>
  /\ UNCHANGED <<phase, configs, channel_modes, broken_buses, sgp30_vars, light, watch_vars, init_pos, sink>>

\* results_estimate = self.sensor.read_channels()
measure_read_estimate ==
  /\ InMeasure
  /\ pc = "read_estimate"
  /\ \E raw \in Readings(instances[rd]) :
       results_estimate' = read_channels(instances[rd].driver_name, instances[rd].sensor, raw)
  /\ calls' = Append(calls, ReadCall)
  /\ pc' = "select"
  /\ UNCHANGED <<phase, configs, instances, channel_modes, broken_buses, sgp30_vars, light, watch_vars,
                 init_pos, rd,
                 results, new_gains, ret, sink>>

\* "Optimize settings and try again": the gain selection loop, then either
\* return results_estimate or go on to the second read_channels()
measure_select ==
  /\ InMeasure
  /\ pc = "select"
  /\ LET inst   == instances[rd]
         groups == InstanceChannelModes(inst)
         gains  == SelectGains(groups, results_estimate, inst.config)
         loop   == SetLoop(inst.driver_name, inst.sensor, groups, gains, Len(groups))
     IN  /\ instances' = [instances EXCEPT ![rd].sensor = loop.sensor]
         /\ calls' = calls \o loop.calls
         /\ IF loop.raised
            THEN pc' = "raised" /\ UNCHANGED <<new_gains, ret>>
            ELSE /\ new_gains' = gains
                 /\ IF SkipSecondPass(gains)
                    THEN pc' = "returned" /\ ret' = results_estimate
                    ELSE pc' = "read_refine" /\ UNCHANGED ret
         /\ UNCHANGED <<rd, results_estimate, results>>
  /\ UNCHANGED <<phase, configs, channel_modes, broken_buses, sgp30_vars, light, watch_vars, init_pos, sink>>

\* results = self.sensor.read_channels()
measure_read_refine ==
  /\ InMeasure
  /\ pc = "read_refine"
  /\ \E raw \in Readings(instances[rd]) :
       results' = read_channels(instances[rd].driver_name, instances[rd].sensor, raw)
  /\ calls' = Append(calls, ReadCall)
  /\ pc' = "guard"
  /\ UNCHANGED <<phase, configs, instances, channel_modes, broken_buses, sgp30_vars, light, watch_vars,
                 init_pos, rd,
                 results_estimate, new_gains, ret, sink>>

\* A guard that also drops the gains above the one just used from the table
measure_guard_trims ==
  /\ InMeasure
  /\ pc = "guard"
  /\ ret' = RevertSaturated(results, results_estimate, instances[rd].config)
  /\ pc' = "returned"
  /\ channel_modes' =
       [channel_modes EXCEPT ![instances[rd].driver_name] =
          [g \in 1..Len(@) |->
             [@[g] EXCEPT !.gain_table =
                RestrictTable(@, {k \in DOMAIN @ : k <= new_gains[g]})]]]
  /\ UNCHANGED <<phase, configs, instances, broken_buses, sgp30_vars, light, watch_vars, init_pos, rd,
                 calls, results_estimate, results, new_gains, sink>>

\* "Check saturated channels (due to dynamics) and revert them", return results
measure_guard ==
  /\ InMeasure
  /\ pc = "guard"
  /\ ret' = RevertSaturated(results, results_estimate, instances[rd].config)
  /\ pc' = "returned"
  /\ UNCHANGED <<phase, configs, instances, channel_modes, broken_buses, sgp30_vars, light, watch_vars,
                 init_pos, rd,
                 calls, results_estimate, results, new_gains, sink>>

\* A read_channels() that is called again after it raised
measure_read_retries ==
  /\ InMeasure
  /\ pc \in {"read_estimate", "read_refine"}
  /\ calls' = Append(calls, ReadCall)
  /\ UNCHANGED <<phase, configs, instances, channel_modes, broken_buses, sgp30_vars, light, watch_vars,
                 init_pos, rd, pc, results_estimate, results, new_gains, ret, sink>>

\* read_channels() raises (measurement timeout, I2C error): the exception
\* leaves measure() and dispatch()
measure_read_raises ==
  /\ InMeasure
  /\ pc \in {"read_estimate", "read_refine"}
  /\ calls' = Append(calls, ReadCall)
  /\ pc' = "raised"
  /\ UNCHANGED <<phase, configs, instances, channel_modes, broken_buses, sgp30_vars, light, watch_vars,
                 init_pos, rd, results_estimate, results, new_gains, ret, sink>>

\* The bus write of a set_channel_mode call raises (I2C error) in the loop that
\* runs at pc, at group f; the calls for the groups before f were made.
measure_set_raises ==
  /\ InMeasure
  /\ pc \in {"none", "select"}
  /\ LET inst   == instances[rd]
         d      == inst.driver_name
         groups == InstanceChannelModes(inst)
         keys   == IF pc = "none" THEN [g \in 1..Len(groups) |-> 1]
                   ELSE SelectGains(groups, results_estimate, inst.config)
     IN  \E f \in 1..Len(groups) :
           LET before == SetLoop(d, inst.sensor, groups, keys, f - 1)
               table  == groups[f].gain_table
           IN  /\ WritesBus(d)
               /\ ~before.raised
               /\ keys[f] \in DOMAIN table
               /\ instances' = [instances EXCEPT ![rd].sensor =
                                  set_channel_mode_raises(d, before.sensor, table[keys[f]][1])]
               /\ calls' = calls \o before.calls
                             \o <<SetCall(ChannelNames(groups[f])[1], table[keys[f]][1],
                                          table[keys[f]][2])>>
  /\ pc' = "raised"
  /\ UNCHANGED <<phase, configs, channel_modes, broken_buses, sgp30_vars, light, watch_vars, init_pos, rd,
                 results_estimate, results, new_gains, ret, sink>>

\* A do_read without the try/except: the exception ends do_read
do_read_except_propagates ==
  /\ InMeasure
  /\ pc = "raised"
  /\ phase' = "idle"
  /\ rd' = 0
  /\ ClearLocals
  /\ UNCHANGED <<configs, instances, channel_modes, broken_buses, sgp30_vars, light, watch_vars,
                 init_pos, sink>>

\* do_read: "except: loge('Dispatch failed!')", then the next instance
do_read_except ==
  /\ InMeasure
  /\ pc = "raised"
  /\ DispatchFailed
  /\ UNCHANGED <<phase, configs, instances, channel_modes, broken_buses, sgp30_vars, light, watch_vars,
                 init_pos, sink>>

SinkEntry(i, type, plugin_instance, type_instance) ==
  [instance |-> i, type |-> type, plugin_instance |-> plugin_instance,
   type_instance |-> type_instance]

\* The vl.dispatch() calls of one iteration of the loop of Instance.dispatch
\* (the values are left out)
DispatchOne(i, inst, name) ==
  LET radiometric == inst.is_radiometric[name]
      c == inst.config
      named == <<inst.driver_name, name>>
  IN  IF (radiometric /\ ~c["LogRadiometric"]) \/ (~radiometric /\ ~c["LogPerceptive"])
      THEN <<>>
      ELSE IF ~radiometric
      THEN <<SinkEntry(i, "gauge", <<inst.bus, name>>, <<inst.driver_name>>)>>
      ELSE <<SinkEntry(i, "count", <<inst.bus, "irradiance-W-m2">>, named)>>
           \o (IF c["LogSaturation"]
               THEN <<SinkEntry(i, "percent", <<inst.bus>>, named)>> ELSE <<>>)
           \o (IF c["LogIntegrationTime"]
               THEN <<SinkEntry(i, "duration", <<inst.bus>>, named)>> ELSE <<>>)
           \o (IF c["LogAnalogGain"]
               THEN <<SinkEntry(i, "gauge", <<inst.bus, "gain">>, named)>> ELSE <<>>)
           \o (IF c["LogTotalGain"]
               THEN <<SinkEntry(i, "gauge", <<inst.bus, "total-gain">>, named)>> ELSE <<>>)

\* The channel names of a result mapping in the order of the driver's dict
ResultNames(inst, mapping) ==
  LET all == ChannelNames(DeclaredChannelModes(inst.driver_name)[1])
  IN  SelectSeq(all, LAMBDA n : n \in DOMAIN mapping)

RECURSIVE DispatchAll(_, _, _, _)
DispatchAll(i, inst, names, n) ==
  IF n = 0 THEN <<>>
  ELSE DispatchAll(i, inst, names, n - 1) \o DispatchOne(i, inst, names[n])

\* An Instance.dispatch that, when measure() raised after its first read,
\* dispatches the channels of that read
dispatch_partial ==
  /\ InMeasure
  /\ pc \in {"returned", "raised"}
  /\ LET mapping == IF pc = "returned" THEN ret ELSE results_estimate
         names   == ResultNames(instances[rd], mapping)
     IN  sink' = sink \o DispatchAll(rd, instances[rd], names, Len(names))
  /\ rd' = rd + 1
  /\ ClearLocals
  /\ first' = IF light # None /\ rd \notin DOMAIN first /\ pc = "returned"
              THEN first @@ (rd :> [gains |-> new_gains, ret |-> ret])
              ELSE first
  /\ UNCHANGED <<phase, configs, instances, channel_modes, broken_buses, sgp30_vars, light, block, probe,
                 init_pos>>

\* Instance.dispatch after measure() has returned, and the next iteration of do_read
dispatch ==
  /\ InMeasure
  /\ pc = "returned"
  /\ LET names == ResultNames(instances[rd], ret)
     IN  sink' = sink \o DispatchAll(rd, instances[rd], names, Len(names))
  /\ rd' = rd + 1
  /\ ClearLocals
  /\ first' = IF light # None /\ rd \notin DOMAIN first
              THEN first @@ (rd :> [gains |-> new_gains, ret |-> ret])
              ELSE first
  /\ UNCHANGED <<phase, configs, instances, channel_modes, broken_buses, sgp30_vars, light, block, probe,
                 init_pos>>

do_read_end ==
  /\ phase = "read"
  /\ rd > Len(instances)
  /\ phase' = "idle"
  /\ rd' = 0
  /\ UNCHANGED <<configs, instances, channel_modes, broken_buses, sgp30_vars, light, watch_vars, init_pos,
                 sink>>
  /\ UNCHANGED measure_vars

----------------------------------------------------------------------------

Init ==
  /\ phase = "config"
  /\ configs = <<>>
  /\ instances = <<>>
  /\ channel_modes = [d \in drivers |-> DeclaredChannelModes(d)]
  /\ broken_buses \in {{}, {"i2c-1"}}
  /\ light = None
  /\ block = <<>>
  /\ first = <<>>
  /\ probe = None
  /\ init_pos = <<1, 1>>
  /\ rd = 0
  /\ pc = "none"
  /\ calls = <<>>
  /\ results_estimate = EmptyMap
  /\ results = EmptyMap
  /\ new_gains = <<>>
  /\ ret = EmptyMap
  /\ sink = <<>>
  /\ sgp30_loaded

NextInit ==
  \/ \E children \in ConfigBlocks : do_config(children)
  \/ do_init_begin
  \/ do_init_step
  \/ do_init_end

SpecInit == Init /\ [][NextInit]_vars

\* Config blocks that name two buses and restrict the settings
BusBlocks ==
  { <<Node("Driver", <<StrVal("TSL2591")>>), Node("Bus", <<StrVal("i2c-0")>>),
      Node("Bus", <<StrVal("i2c-1")>>), Node("MaxIntegrationTime", <<FloatVal(200)>>)>>,
    <<Node("Driver", <<StrVal("APDS 9250")>>), Node("Bus", <<StrVal("i2c-1")>>),
      Node("Bus", <<StrVal("i2c-0")>>), Node("AnalogGain", <<FloatVal(1000)>>)>>,
    <<Node("Driver", <<StrVal("VEML6075")>>), Node("Bus", <<StrVal("i2c-0")>>),
      Node("Bus", <<StrVal("i2c-1")>>), Node("IntegrationTime", <<FloatVal(100)>>)>> }

\* Configuration and initialisation with the two-bus blocks among the blocks
NextBuses ==
  \/ \E children \in ConfigBlocks \cup BusBlocks : do_config(children)
  \/ do_init_begin
  \/ do_init_step
  \/ do_init_end

SpecBuses == Init /\ [][NextBuses]_vars

Next ==
  \/ \E children \in ConfigBlocks : do_config(children)
  \/ do_init_begin
  \/ do_init_step
  \/ do_init_end
  \/ do_read_begin
  \/ measure_estimate_set
  \/ measure_read_estimate
  \/ measure_select
  \/ measure_read_refine
  \/ measure_guard
  \/ measure_read_raises
  \/ measure_set_raises
  \/ do_read_except
  \/ dispatch
  \/ do_read_end

Spec == Init /\ [][Next]_vars

\* The plugin under a constant light level on sensors that all answer
InitConstant ==
  /\ phase = "config"
  /\ configs = <<>>
  /\ instances = <<>>
  /\ channel_modes = [d \in drivers |-> DeclaredChannelModes(d)]
  /\ broken_buses = {}
  /\ light \in Lights
  /\ block = <<>>
  /\ first = <<>>
  /\ probe = None
  /\ init_pos = <<1, 1>>
  /\ rd = 0
  /\ pc = "none"
  /\ calls = <<>>
  /\ results_estimate = EmptyMap
  /\ results = EmptyMap
  /\ new_gains = <<>>
  /\ ret = EmptyMap
  /\ sink = <<>>
  /\ sgp30_loaded

SpecConstant == InitConstant /\ [][Next]_vars

----------------------------------------------------------------------------
(* Functions applied on their own.  The three drivers have one channel     *)
(* group each and one gain table is built by _gain_table_from_product, so  *)
(* the selection loop and the table construction are also run on inputs    *)
(* of their own: a sensor of two channel groups as the Instance docstring  *)
(* describes it, and analog gains and integration times in every order.    *)

\* get_channel_modes() of a sensor with two channel groups
TwoGroupModes ==
  << [channels   |-> << <<"A1", TRUE>>, <<"A2", TRUE>> >>,
      gain_table |-> (1 :> <<1, 100>> @@ 4 :> <<2, 200>> @@ 16 :> <<4, 400>>)],
     [channels   |-> << <<"B1", TRUE>> >>,
      gain_table |-> (1 :> <<1, 100>> @@ 2 :> <<1, 200>> @@ 8 :> <<4, 200>>)] >>

\* Saturations of an estimate: nearly dark, 5 %, 40 %, 95 %
ProbeSaturations == {<<1, 1000>>, <<50, 1000>>, <<400, 1000>>, <<950, 1000>>}

\* The read_channels() results of the two-group sensor at its gain_table[1] setting
ProbeEstimates ==
  {[n \in {"A1", "A2", "B1"} |-> Entry(<<>>, sat[n], 1, 100)] :
     sat \in [{"A1", "A2", "B1"} -> ProbeSaturations]}

\* The sequences without repetition over a set: every iteration order of
\* every non-empty subset
Orders(S) ==
  {q \in UNION {[1..n -> S] : n \in 1..Cardinality(S)} :
     \A i, j \in 1..Len(q) : i # j => q[i] # q[j]}

\* Analog gains and integration times (ms) handed to _gain_table_from_product
ProbeGains == {1, 2, 3, 4}

ProbeTimes == {100, 200, 400}

InitProbe ==
  /\ phase = "config"
  /\ configs = <<>>
  /\ instances = <<>>
  /\ channel_modes = [d \in drivers |-> DeclaredChannelModes(d)]
  /\ broken_buses = {}
  /\ light = None
  /\ block = <<>>
  /\ first = <<>>
  /\ probe \in {[op |-> "select", estimates |-> <<a, b>>, config |-> [GainMargin |-> m],
                  agains |-> <<>>, itimes |-> <<>>, done |-> FALSE, out |-> <<>>] :
                   a \in ProbeEstimates, b \in ProbeEstimates, m \in {0, 500}}
             \cup
             {[op |-> "table", estimates |-> <<>>, config |-> EmptyMap,
               agains |-> a, itimes |-> i, done |-> FALSE, out |-> <<>>] :
                a \in Orders(ProbeGains), i \in Orders(ProbeTimes)}
  /\ init_pos = <<1, 1>>
  /\ rd = 0
  /\ pc = "none"
  /\ calls = <<>>
  /\ results_estimate = EmptyMap
  /\ results = EmptyMap
  /\ new_gains = <<>>
  /\ ret = EmptyMap
  /\ sink = <<>>
  /\ sgp30_loaded

\* The selection loop of measure() on each of the two estimates
probe_select ==
  /\ probe.op = "select"
  /\ ~probe.done
  /\ probe' = [probe EXCEPT
                 !.done = TRUE,
                 !.out  = <<SelectGains(TwoGroupModes, probe.estimates[1], probe.config),
                            SelectGains(TwoGroupModes, probe.estimates[2], probe.config)>>]
  /\ UNCHANGED <<phase, configs, instances, channel_modes, broken_buses, sgp30_vars, light, block, first,
                 init_pos, rd, sink>>
  /\ UNCHANGED measure_vars

\* _gain_table_from_product(agains, itimes)
probe_table ==
  /\ probe.op = "table"
  /\ ~probe.done
  /\ probe' = [probe EXCEPT
                 !.done = TRUE,
                 !.out  = _gain_table_from_product(probe.agains, probe.itimes)]
  /\ UNCHANGED <<phase, configs, instances, channel_modes, broken_buses, sgp30_vars, light, block, first,
                 init_pos, rd, sink>>
  /\ UNCHANGED measure_vars

NextProbe ==
  \/ probe_select
  \/ probe_table

SpecProbe == InitProbe /\ [][NextProbe]_vars

----------------------------------------------------------------------------
(* The air quality plugin: src/envsensor/sgp30.py                          *)

\* Bounds: config blocks, iterations of the poll loop and read() calls
MaxSgpConfigs == 1

MaxPolls == 2

MaxReads == 2

\* The config blocks collectd hands to sgp30.config
SgpBlocks ==
  { <<Node("Buses", <<StrVal("i2c-1"), StrVal("i2c-10")>>)>>,
    <<Node("Buses", <<StrVal("i2c-1")>>),
      Node("Baseline", <<FloatVal(35620000), FloatVal(37850000)>>),
      Node("LogBaseline", <<BoolVal(TRUE)>>)>>,
    <<Node("Buses", <<StrVal("i2c-1")>>), Node("Foo", <<BoolVal(TRUE)>>)>> }

\* One iteration of "for node in config_in.children": [err, cfg]
SgpParseNode(acc, node) ==
  LET key == lower(node.key)
      val == node.values
      isnum(v) == v.t \in {"int", "float", "bool"}
      put(k, v) == [x \in DOMAIN acc.cfg \cup {k} |-> IF x = k THEN v ELSE acc.cfg[x]]
  IN  IF acc.err THEN acc
      ELSE CASE key = "buses" ->
                  IF \A i \in 1..Len(val) : val[i].t = "str"
                  THEN [err |-> FALSE,
                        cfg |-> put("buses", acc.cfg["buses"]
                                               \o [i \in 1..Len(val) |-> lower(val[i].s)])]
                  ELSE [err |-> TRUE, cfg |-> acc.cfg]
             [] key = "baseline" ->
                  IF Len(val) = 2 /\ isnum(val[1]) /\ isnum(val[2])
                  THEN [err |-> FALSE,
                        cfg |-> put("baseline", <<Round(AsNumber(val[1]), 1000),
                                                  Round(AsNumber(val[2]), 1000)>>)]
                  ELSE [err |-> TRUE, cfg |-> acc.cfg]
             [] key = "logbaseline" ->
                  IF Len(val) = 1 /\ val[1].t = "bool"
                  THEN [err |-> FALSE, cfg |-> put("log_baseline", val[1].b)]
                  ELSE [err |-> TRUE, cfg |-> acc.cfg]
             [] OTHER -> [err |-> TRUE, cfg |-> acc.cfg]

RECURSIVE SgpParseChildren(_, _)
SgpParseChildren(children, n) ==
  IF n = 0
  THEN [err |-> FALSE, cfg |-> ("buses" :> <<>> @@ "log_baseline" :> FALSE)]
  ELSE SgpParseNode(SgpParseChildren(children, n - 1), children[n])

\* sgp30.config(config_in): an assert or a KeyError leaves configs as it is
sgp30_config(children) ==
  /\ sgp30_pc.main = "config"
  /\ sgp30_pc.shutdown = "idle"
  /\ Len(sgp30_configs) < MaxSgpConfigs
  /\ LET parsed == SgpParseChildren(children, Len(children))
     IN  IF parsed.err
         THEN /\ sgp30_pc' = [sgp30_pc EXCEPT !.main = "terminated"]
              /\ UNCHANGED sgp30_configs
         ELSE /\ sgp30_configs' = Append(sgp30_configs, parsed.cfg)
              /\ UNCHANGED sgp30_pc
  /\ UNCHANGED <<sensors, keep_polling, data, data_lock, poll_thread, sgp30_idx, sgp30_log>>
  /\ UNCHANGED lightsensor_vars

\* SGP30.__init__ that did not raise
SGP30__init__(bus, log_baseline) ==
  [bus |-> bus, log_baseline |-> log_baseline, _ready |-> FALSE]

\* The sensors init() appends for one config: one per bus on which the
\* constructor and set_baseline did not raise
SensorsOfConfig(config, good) ==
  LET buses == SelectSeq(config["buses"], LAMBDA b : b \in good)
  IN  [i \in 1..Len(buses) |-> SGP30__init__(buses[i], config["log_baseline"])]

RECURSIVE SensorsOfConfigs(_, _, _)
SensorsOfConfigs(cfgs, n, good) ==
  IF n = 0 THEN <<>>
  ELSE SensorsOfConfigs(cfgs, n - 1, good) \o SensorsOfConfig(cfgs[n], good)

\* The buses named in the config blocks
SgpBuses == {"i2c-1", "i2c-10"}

\* sgp30.init(): the sensors, then poll_thread.start() if there is a config
sgp30_init ==
  /\ sgp30_pc.main = "config"
  /\ sgp30_pc.shutdown = "idle"
  /\ \E good \in SUBSET SgpBuses :
       sensors' = SensorsOfConfigs(sgp30_configs, Len(sgp30_configs), good)
  /\ poll_thread' = IF Len(sgp30_configs) # 0 THEN "test" ELSE poll_thread
  /\ sgp30_pc' = [sgp30_pc EXCEPT !.main = "running"]
  /\ UNCHANGED <<sgp30_configs, keep_polling, data, data_lock, sgp30_idx, sgp30_log>>
  /\ UNCHANGED lightsensor_vars

\* What the sensor answers to measure_iaq: an I/O or CRC error, or a reading
SgpAnswers ==
  { [ok |-> FALSE, eco2 |-> 0, tvoc |-> 0],
    [ok |-> TRUE, eco2 |-> 400, tvoc |-> 0],
    [ok |-> TRUE, eco2 |-> 450, tvoc |-> 12] }

\* A get_air_quality that looks at the reading only
get_air_quality_nolatch(sensor, answer) ==
  IF ~answer.ok
  THEN [sensor |-> sensor, outcome |-> "IOError"]
  ELSE IF answer.eco2 = 400 /\ answer.tvoc = 0
  THEN [sensor |-> sensor, outcome |-> "SensorNotReadyError"]
  ELSE [sensor |-> [sensor EXCEPT !._ready = TRUE], outcome |-> "returned"]

\* SGP30.get_air_quality(): the sensor object after the call and how the call ended
get_air_quality(sensor, answer) ==
  IF ~answer.ok
  THEN [sensor |-> sensor, outcome |-> "IOError"]
  ELSE IF ~sensor._ready /\ answer.eco2 = 400 /\ answer.tvoc = 0
  THEN [sensor |-> sensor, outcome |-> "SensorNotReadyError"]
  ELSE [sensor |-> [sensor EXCEPT !._ready = TRUE], outcome |-> "returned"]

\* poll_thread.is_alive()
is_alive == poll_thread \notin {"initial", "finished"}

\* insert_dummy_read: "while keep_polling", and the sleep to the next second
poll_test ==
  /\ poll_thread = "test"
  /\ IF keep_polling
     THEN /\ sgp30_log.polls < MaxPolls
          /\ poll_thread' = "acquire"
          /\ sgp30_log' = [sgp30_log EXCEPT !.polls = @ + 1]
     ELSE /\ poll_thread' = "finished"
          /\ UNCHANGED sgp30_log
  /\ UNCHANGED <<sgp30_configs, sensors, keep_polling, data, data_lock, sgp30_pc, sgp30_idx>>
  /\ UNCHANGED lightsensor_vars

\* insert_dummy_read: data_lock.acquire()
poll_acquire ==
  /\ poll_thread = "acquire"
  /\ data_lock = "free"
  /\ data_lock' = "poll"
  /\ poll_thread' = "clear"
  /\ UNCHANGED <<sgp30_configs, sensors, keep_polling, data, sgp30_pc, sgp30_idx, sgp30_log>>
  /\ UNCHANGED lightsensor_vars

\* insert_dummy_read: data = []
poll_clear ==
  /\ poll_thread = "clear"
  /\ data' = <<>>
  /\ sgp30_idx' = [sgp30_idx EXCEPT !.poll = 1]
  /\ poll_thread' = "sensors"
  /\ UNCHANGED <<sgp30_configs, sensors, keep_polling, data_lock, sgp30_pc, sgp30_log>>
  /\ UNCHANGED lightsensor_vars

\* insert_dummy_read: one iteration of "for sensor in sensors".  The key
\* "poll" of the data_instance is not in the program: it records the
\* iteration of the poll loop that stored the sample.
poll_sensor ==
  /\ poll_thread = "sensors"
  /\ sgp30_idx.poll <= Len(sensors)
  /\ LET k      == sgp30_idx.poll
         sensor == sensors[k]
     IN  \E baseline_ok \in (IF sensor.log_baseline THEN BOOLEAN ELSE {TRUE}) :
         \E answer \in SgpAnswers :
           LET called == get_air_quality(sensor, answer)
               base   == IF sensor.log_baseline /\ baseline_ok
                         THEN ("eco2_baseline" :> 35620 @@ "tvoc_baseline" :> 37850)
                         ELSE <<>>
               iaq    == IF baseline_ok /\ called.outcome = "returned"
                         THEN ("eco2" :> answer.eco2 @@ "tvoc" :> answer.tvoc)
                         ELSE <<>>
           IN  /\ data' = Append(data, ("bus" :> sensor.bus @@ "poll" :> sgp30_log.polls)
                                          @@ base @@ iaq)
               /\ sensors' = IF baseline_ok THEN [sensors EXCEPT ![k] = called.sensor]
                             ELSE sensors
               /\ sgp30_log' =
                    IF baseline_ok
                    THEN [sgp30_log EXCEPT
                            !.last = <<[sensor |-> k, outcome |-> called.outcome,
                                        eco2 |-> answer.eco2, tvoc |-> answer.tvoc,
                                        before |-> k \in sgp30_log.returned]>>,
                            !.returned = IF called.outcome = "returned"
                                         THEN @ \cup {k} ELSE @]
                    ELSE sgp30_log
  /\ sgp30_idx' = [sgp30_idx EXCEPT !.poll = @ + 1]
  /\ UNCHANGED <<sgp30_configs, keep_polling, data_lock, poll_thread, sgp30_pc>>
  /\ UNCHANGED lightsensor_vars

\* insert_dummy_read: data_lock.release()
poll_release ==
  /\ poll_thread = "sensors"
  /\ sgp30_idx.poll > Len(sensors)
  /\ data_lock' = "free"
  /\ poll_thread' = "test"
  /\ sgp30_idx' = [sgp30_idx EXCEPT !.poll = 0]
  /\ sgp30_log' = [sgp30_log EXCEPT !.last = <<>>]
  /\ UNCHANGED <<sgp30_configs, sensors, keep_polling, data, sgp30_pc>>
  /\ UNCHANGED lightsensor_vars

\* The type_instance of the vl.dispatch() calls read() makes for one
\* data_instance
SgpDispatches(data_instance) ==
  (IF {"eco2", "tvoc"} \subseteq DOMAIN data_instance
   THEN <<"eCO2-ppm", "TVOC-ppb">> ELSE <<>>)
  \o (IF {"eco2_baseline", "tvoc_baseline"} \subseteq DOMAIN data_instance
      THEN <<"baseline_SGP30_eCO2", "baseline_SGP30_TVOC">> ELSE <<>>)

\* The sink after the read() call number r dispatched `made` values of a
\* data_instance
SgpSink(data_instance, r, made) ==
  IF made > 0
  THEN sgp30_log.sink \cup {[read |-> r, poll |-> data_instance["poll"]]}
  ELSE sgp30_log.sink

\* collectd calls the read callback
read_begin ==
  /\ sgp30_pc.main = "running"
  /\ sgp30_pc.read = "idle"
  /\ sgp30_pc.shutdown # "returned"
  /\ sgp30_log.reads < MaxReads
  /\ sgp30_pc' = [sgp30_pc EXCEPT !.read = "acquire"]
  /\ sgp30_log' = [sgp30_log EXCEPT !.reads = @ + 1]
  /\ UNCHANGED <<sgp30_configs, sensors, keep_polling, data, data_lock, poll_thread, sgp30_idx>>
  /\ UNCHANGED lightsensor_vars

\* read: data_lock.acquire()
read_acquire ==
  /\ sgp30_pc.read = "acquire"
  /\ data_lock = "free"
  /\ data_lock' = "read"
  /\ sgp30_pc' = [sgp30_pc EXCEPT !.read = "loop"]
  /\ sgp30_idx' = [sgp30_idx EXCEPT !.read = 1]
  /\ UNCHANGED <<sgp30_configs, sensors, keep_polling, data, poll_thread, sgp30_log>>
  /\ UNCHANGED lightsensor_vars

\* A read whose "data = []" is left out
read_clear_keeps ==
  /\ sgp30_pc.read = "loop"
  /\ sgp30_idx.read > Len(data)
  /\ sgp30_pc' = [sgp30_pc EXCEPT !.read = "release"]
  /\ UNCHANGED <<sgp30_configs, sensors, keep_polling, data, data_lock, poll_thread, sgp30_idx,
                 sgp30_log>>
  /\ UNCHANGED lightsensor_vars

\* read: one iteration of "for data_instance in data"
read_dispatch ==
  /\ sgp30_pc.read = "loop"
  /\ sgp30_idx.read <= Len(data)
  /\ LET data_instance == data[sgp30_idx.read]
     IN  sgp30_log' = [sgp30_log EXCEPT !.sink =
                         SgpSink(data_instance, sgp30_log.reads,
                                 Len(SgpDispatches(data_instance)))]
  /\ sgp30_idx' = [sgp30_idx EXCEPT !.read = @ + 1]
  /\ UNCHANGED <<sgp30_configs, sensors, keep_polling, data, data_lock, poll_thread, sgp30_pc>>
  /\ UNCHANGED lightsensor_vars

\* read: a vl.dispatch() call of the iteration raises, after `made` calls of
\* the iteration went through; the exception leaves read()
read_dispatch_raises ==
  /\ sgp30_pc.read = "loop"
  /\ sgp30_idx.read <= Len(data)
  /\ LET data_instance == data[sgp30_idx.read]
         calls_        == SgpDispatches(data_instance)
     IN  /\ Len(calls_) > 0
         /\ \E made \in 0..(Len(calls_) - 1) :
              sgp30_log' = [sgp30_log EXCEPT !.sink =
                              SgpSink(data_instance, sgp30_log.reads, made)]
  /\ sgp30_pc' = [sgp30_pc EXCEPT !.read = "idle"]
  /\ sgp30_idx' = [sgp30_idx EXCEPT !.read = 0]
  /\ UNCHANGED <<sgp30_configs, sensors, keep_polling, data, data_lock, poll_thread>>
  /\ UNCHANGED lightsensor_vars

\* read: data = []
read_clear ==
  /\ sgp30_pc.read = "loop"
  /\ sgp30_idx.read > Len(data)
  /\ data' = <<>>
  /\ sgp30_pc' = [sgp30_pc EXCEPT !.read = "release"]
  /\ UNCHANGED <<sgp30_configs, sensors, keep_polling, data_lock, poll_thread, sgp30_idx,
                 sgp30_log>>
  /\ UNCHANGED lightsensor_vars

\* read: data_lock.release(), and the return
read_release ==
  /\ sgp30_pc.read = "release"
  /\ data_lock' = "free"
  /\ sgp30_pc' = [sgp30_pc EXCEPT !.read = "idle"]
  /\ sgp30_idx' = [sgp30_idx EXCEPT !.read = 0]
  /\ UNCHANGED <<sgp30_configs, sensors, keep_polling, data, poll_thread, sgp30_log>>
  /\ UNCHANGED lightsensor_vars

\* collectd calls the shutdown callback: keep_polling = False
shutdown_begin ==
  /\ sgp30_pc.shutdown = "idle"
  /\ keep_polling' = FALSE
  /\ sgp30_pc' = [sgp30_pc EXCEPT !.shutdown = "check"]
  /\ UNCHANGED <<sgp30_configs, sensors, data, data_lock, poll_thread, sgp30_idx, sgp30_log>>
  /\ UNCHANGED lightsensor_vars

\* shutdown: if poll_thread.is_alive()
shutdown_check ==
  /\ sgp30_pc.shutdown = "check"
  /\ sgp30_pc' = [sgp30_pc EXCEPT !.shutdown = IF is_alive THEN "join" ELSE "returned"]
  /\ UNCHANGED <<sgp30_configs, sensors, keep_polling, data, data_lock, poll_thread, sgp30_idx,
                 sgp30_log>>
  /\ UNCHANGED lightsensor_vars

\* shutdown: poll_thread.join() returns when the thread has ended
shutdown_join ==
  /\ sgp30_pc.shutdown = "join"
  /\ poll_thread = "finished"
  /\ sgp30_pc' = [sgp30_pc EXCEPT !.shutdown = "returned"]
  /\ UNCHANGED <<sgp30_configs, sensors, keep_polling, data, data_lock, poll_thread, sgp30_idx,
                 sgp30_log>>
  /\ UNCHANGED lightsensor_vars

\* The steps of the poll thread
PollNext ==
  \/ poll_test
  \/ poll_acquire
  \/ poll_clear
  \/ poll_sensor
  \/ poll_release

\* The steps of a read() call that has begun
ReadNext ==
  \/ read_acquire
  \/ read_dispatch
  \/ read_dispatch_raises
  \/ read_clear
  \/ read_release

\* The steps of a shutdown() call that has begun
ShutdownNext ==
  \/ shutdown_check
  \/ shutdown_join

NextSgp30 ==
  \/ \E children \in SgpBlocks : sgp30_config(children)
  \/ sgp30_init
  \/ poll_test
  \/ poll_acquire
  \/ poll_clear
  \/ poll_sensor
  \/ poll_release
  \/ read_begin
  \/ read_acquire
  \/ read_dispatch
  \/ read_dispatch_raises
  \/ read_clear
  \/ read_release
  \/ shutdown_begin
  \/ shutdown_check
  \/ shutdown_join

\* Both plugins as loaded, with every light sensor bus answering
InitSgp30 == Init /\ broken_buses = {}

SpecSgp30 == InitSgp30 /\ [][NextSgp30]_vars

\* The threads run: a thread that can take a step takes one, and a thread
\* waiting for data_lock gets it if the lock is free again and again
SpecSgp30Fair ==
  /\ InitSgp30
  /\ [][NextSgp30]_vars
  /\ WF_vars(poll_test) /\ WF_vars(poll_clear) /\ WF_vars(poll_sensor) /\ WF_vars(poll_release)
  /\ SF_vars(poll_acquire)
  /\ WF_vars(read_dispatch \/ read_dispatch_raises) /\ WF_vars(read_clear)
  /\ WF_vars(read_release)
  /\ SF_vars(read_acquire)
  /\ WF_vars(shutdown_check) /\ WF_vars(shutdown_join)

----------------------------------------------------------------------------
(* Properties of Instance.measure()                                        *)

NumReads(log) == Cardinality({i \in 1..Len(log) : log[i].op = "read_channels"})

\* The gain selection of the running measure() has been made
Selected == InMeasure /\ Len(new_gains) > 0

\* The running measure() has made its second read_channels()
Refined == InMeasure /\ DOMAIN results # {}

\* key <= 1 / sat / (1 + margin), stated on the product: key * sat * (1 + margin) <= 1
C1_WithinTarget(key, sat, margin) ==
  sat[1] * (1000 + margin) <= (sat[2] * 1000) \div key

\* The largest estimate-pass saturation among the channels of a group
C1_MaxSat(group) ==
  LET names == Range(ChannelNames(group))
  IN  CHOOSE s \in {results_estimate[n].saturation : n \in names} :
        \A n \in names : results_estimate[n].saturation[1] <= s[1]

\* C1: once measure() has selected the gains, the gain of every group is the
\* largest key of the group's permitted gain_table that is at most
\* target = 1 / max_sat / (1 + GainMargin), max_sat being the largest
\* estimate-pass saturation of the group's channels, and it is 1 when no key
\* is at most target.
C1_GainSelection ==
  Selected =>
    LET inst   == instances[rd]
        groups == InstanceChannelModes(inst)
    IN  \A g \in 1..Len(groups) :
          LET allowed == {k \in DOMAIN groups[g].gain_table :
                            C1_WithinTarget(k, C1_MaxSat(groups[g]), inst.config["GainMargin"])}
          IN  IF allowed = {}
              THEN new_gains[g] = 1
              ELSE new_gains[g] \in allowed /\ \A k \in allowed : k <= new_gains[g]

\* A selection strictly between the smallest and the largest key of the table
C1_Witness ==
  /\ Selected
  /\ LET table == InstanceChannelModes(instances[rd])[1].gain_table
     IN  /\ \E k \in DOMAIN table : 1 < k /\ k < new_gains[1]
         /\ \E k \in DOMAIN table : new_gains[1] < k

\* C2: when measure() returns after a refinement pass, a channel whose
\* refinement-pass saturation exceeds MaxSaturation is returned with its
\* estimate-pass entry, and every other channel with its refinement-pass entry.
C2_SaturationGuard ==
  (Refined /\ pc = "returned") =>
    /\ DOMAIN ret = DOMAIN results
    /\ \A name \in DOMAIN results :
         LET sat == results[name].saturation
         IN  IF sat[1] * 1000 > instances[rd].config["MaxSaturation"] * sat[2]
             THEN ret[name] = results_estimate[name]
             ELSE ret[name] = results[name]

\* A return in which one channel was reverted and another one was not
C2_Witness ==
  /\ Refined
  /\ pc = "returned"
  /\ \E a, b \in DOMAIN results :
       /\ ret[a] = results_estimate[a]
       /\ ret[a] # results[a]
       /\ ret[b] = results[b]
       /\ ret[b] # results_estimate[b]

\* C3: when the selected gain of every group is 1, measure() has returned the
\* estimate-pass mapping after exactly one read_channels() call.
C3_SecondPassSkipped ==
  (Selected /\ \A g \in 1..Len(new_gains) : new_gains[g] = 1) =>
    /\ pc = "returned"
    /\ NumReads(calls) = 1
    /\ ret = results_estimate

\* A skipped second pass on a sensor whose table has higher gains to offer
C3_Witness ==
  /\ Selected
  /\ pc = "returned"
  /\ \A g \in 1..Len(new_gains) : new_gains[g] = 1
  /\ \E k \in DOMAIN InstanceChannelModes(instances[rd])[1].gain_table : k > 1

\* C4: when some group's selected gain is above 1, the calls after the first
\* read_channels() are one set_channel_mode per group with the selected
\* (analog gain, integration time), then the second read_channels(), which
\* reports that setting; no invocation makes more than two read_channels() calls.
C4_RefinementPass ==
  /\ NumReads(calls) <= 2
  /\ (Selected /\ \E g \in 1..Len(new_gains) : new_gains[g] > 1) =>
       LET groups == InstanceChannelModes(instances[rd])
           n      == Len(groups)
       IN  /\ pc \in {"read_refine", "guard", "returned", "raised"}
           /\ calls[n + 1] = ReadCall
           /\ \A g \in 1..n :
                calls[n + 1 + g] =
                  SetCall(ChannelNames(groups[g])[1], groups[g].gain_table[new_gains[g]][1],
                          groups[g].gain_table[new_gains[g]][2])
           /\ pc = "read_refine" => Len(calls) = 2 * n + 1
           /\ pc \in {"guard", "returned", "raised"} =>
                /\ Len(calls) = 2 * n + 2
                /\ calls[2 * n + 2] = ReadCall
           /\ pc \in {"guard", "returned"} =>
                /\ \A g \in 1..n : \A name \in Range(ChannelNames(groups[g])) :
                     /\ results[name].again = groups[g].gain_table[new_gains[g]][1]
                     /\ results[name].itime = groups[g].gain_table[new_gains[g]][2]

\* A return after two passes
C4_Witness ==
  /\ Selected
  /\ pc = "returned"
  /\ new_gains[1] > 1
  /\ NumReads(calls) = 2

\* The setting of the sensor object that read_channels() reports
ReportedSetting(inst) ==
  CASE inst.driver_name = "APDS_9250" -> <<inst.sensor.again, APDS_9250_INT_TIME>>
    [] inst.driver_name = "TSL2591"   -> <<inst.sensor.again, inst.sensor.itime>>
    [] inst.driver_name = "VEML6075"  -> <<1, inst.sensor.itime>>

\* C5, in every state of an invocation that has read the sensor: the calls
\* start with one set_channel_mode per group with the group's gain_table[1]
\* setting, the first read_channels() comes right after them, and the
\* estimate reports that setting for every channel.
C5_EstimateFirst ==
  (InMeasure /\ NumReads(calls) > 0) =>
    LET groups == InstanceChannelModes(instances[rd])
        n      == Len(groups)
    IN  /\ Len(calls) > n
        /\ \A g \in 1..n :
             calls[g] = SetCall(ChannelNames(groups[g])[1], groups[g].gain_table[1][1],
                                groups[g].gain_table[1][2])
        /\ calls[n + 1] = ReadCall
        /\ DOMAIN results_estimate # {} =>
             \A g \in 1..n : \A name \in Range(ChannelNames(groups[g])) :
               /\ results_estimate[name].again = groups[g].gain_table[1][1]
               /\ results_estimate[name].itime = groups[g].gain_table[1][2]

\* C5, on the step that enters measure(): whatever setting the sensor was
\* left in, after the first loop it is in the gain_table[1] setting.
C5_EstimateStep ==
  (InMeasure /\ pc = "none" /\ pc' = "read_estimate") =>
    ReportedSetting(instances'[rd]) = InstanceChannelModes(instances[rd])[1].gain_table[1]

\* C5: in every measure() invocation, regardless of the setting left on the
\* sensor by earlier calls, every channel group is set to its gain_table[1]
\* (analog gain, integration time) before the first read_channels() call.
C5_EstimationPass == [](C5_EstimateFirst) /\ [][C5_EstimateStep]_vars

\* measure() is about to start on a sensor that an earlier measure() left in
\* a setting other than gain_table[1]
C5_Witness ==
  /\ InMeasure
  /\ pc = "none"
  /\ 1 \in DOMAIN InstanceChannelModes(instances[rd])[1].gain_table
  /\ instances[rd].sensor.again # 0
  /\ instances[rd].sensor.itime # 0
  /\ ReportedSetting(instances[rd]) # InstanceChannelModes(instances[rd])[1].gain_table[1]

----------------------------------------------------------------------------
(* Properties of construction and of the channel-group set                 *)

\* One gain_table entry <<analog gain, integration time>> satisfies every
\* constraint the config sets
SatisfiesConfig(entry, config) ==
  /\ "AnalogGain" \in DOMAIN config => 1000 * entry[1] = config["AnalogGain"]
  /\ "IntegrationTime" \in DOMAIN config => entry[2] = config["IntegrationTime"]
  /\ "MaxIntegrationTime" \in DOMAIN config => entry[2] <= config["MaxIntegrationTime"]

\* The entries of a gain_table that satisfy the config
Admitted(table, config) ==
  RestrictTable(table, {k \in DOMAIN table : SatisfiesConfig(table[k], config)})

\* The (config, bus) pair was made into an instance
Created(config, bus) ==
  \E i \in 1..Len(instances) : instances[i].config = config /\ instances[i].bus = bus

\* C6: when do_init has ended, every (config, bus) pair whose sensor answers and
\* whose config admits the key-1 setting of its driver's gain table has an
\* instance, whatever happened to the pairs before it.
C6_FailureIsolated ==
  phase = "idle" =>
    \A c \in 1..Len(configs) : \A b \in 1..Len(configs[c]["Bus"]) :
      LET declared == DeclaredChannelModes(configs[c]["Driver"])
      IN  ( /\ configs[c]["Bus"][b] \notin broken_buses
            /\ \A g \in 1..Len(declared) :
                 1 \in DOMAIN Admitted(declared[g].gain_table, configs[c]) )
          => Created(configs[c], configs[c]["Bus"][b])

\* C7: no step changes the permitted gain_table that an existing instance sees.
C7_NoSharedState ==
  [][\A i \in 1..Len(instances) :
       channel_modes'[instances[i].driver_name] = channel_modes[instances[i].driver_name]]_vars

\* C8: no step of measure() or dispatch() on an instance changes the channel
\* groups (channels and permitted gain_table) of that instance.
C8_ChannelModesFixed ==
  [][InMeasure =>
       channel_modes'[instances[rd].driver_name] = channel_modes[instances[rd].driver_name]]_vars

\* do_read has measured and dispatched an instance after a refinement pass
\* (the sensor was left in a setting above gain_table[1])
C8_Witness ==
  /\ phase = "read"
  /\ rd = 2
  /\ Len(sink) > 0
  /\ 1 \in DOMAIN channel_modes[instances[1].driver_name][1].gain_table
  /\ instances[1].sensor.again # 0
  /\ instances[1].sensor.itime # 0
  /\ ReportedSetting(instances[1]) # channel_modes[instances[1].driver_name][1].gain_table[1]

\* C9: on every step in which Instance.__init__ succeeds, the gain_table of
\* every group of the new instance holds exactly the entries of the driver's
\* table that satisfy the constraints of the instance's config (all of them
\* when the config sets no constraint).
C9_ConstructionFilter ==
  [][Len(instances') > Len(instances) =>
       LET inst     == instances'[Len(instances')]
           declared == DeclaredChannelModes(inst.driver_name)
           mine     == channel_modes'[inst.driver_name]
       IN  \A g \in 1..Len(declared) :
             mine[g].gain_table = Admitted(declared[g].gain_table, inst.config)]_vars

\* The constraints of the config leave some group of the list without a setting
LeavesEmpty(groups, config) ==
  \E g \in 1..Len(groups) :
    \A k \in DOMAIN groups[g].gain_table : ~SatisfiesConfig(groups[g].gain_table[k], config)

\* C10: when the constraints of the config leave a group's gain_table empty,
\* the iteration of do_init adds no instance, raises nothing out of do_init
\* and goes on to the next (config, bus) pair.
C10_EmptyTableSkipped ==
  [][( /\ phase = "init"
       /\ init_pos[1] <= Len(configs)
       /\ LeavesEmpty(channel_modes[configs[init_pos[1]]["Driver"]], configs[init_pos[1]]) )
     => ( /\ instances' = instances
          /\ phase' = "init"
          /\ init_pos' = NextInitPos(init_pos) )]_vars

\* do_init has ended; its first pair had an answering sensor and constraints
\* that leave the driver's table empty, and a later pair has an instance
C10_Witness ==
  /\ phase = "idle"
  /\ Len(configs) = 2
  /\ configs[1]["Bus"][1] \notin broken_buses
  /\ LeavesEmpty(DeclaredChannelModes(configs[1]["Driver"]), configs[1])
  /\ ~Created(configs[1], configs[1]["Bus"][1])
  /\ \E b \in 1..Len(configs[2]["Bus"]) : Created(configs[2], configs[2]["Bus"][b])

----------------------------------------------------------------------------
(* Properties of the gain tables                                           *)

\* The key-1 entry of a gain_table exists and holds the smallest analog gain
\* and the smallest integration time of the table
KeyOneIsMinimum(table) ==
  /\ 1 \in DOMAIN table
  /\ \A k \in DOMAIN table : table[1][1] <= table[k][1] /\ table[1][2] <= table[k][2]

\* C11: every group of every instance of the instances list has a gain_table
\* with an entry at key 1, and that entry holds the minimum analog gain and
\* the minimum integration time of the table's entries.
C11_KeyOneInvariant ==
  \A i \in 1..Len(instances) :
    LET groups == InstanceChannelModes(instances[i])
    IN  \A g \in 1..Len(groups) : KeyOneIsMinimum(groups[g].gain_table)

\* The same at the moment Instance.__init__ succeeds: the table the new
\* instance is built on passes the key-1 check (lightsensor.py line 132 raises
\* KeyError otherwise).  This holds; C11_KeyOneInvariant fails on an instance
\* built earlier.
C11_AtConstruction ==
  [][Len(instances') > Len(instances) =>
       LET groups == channel_modes'[instances'[Len(instances')].driver_name]
       IN  \A g \in 1..Len(groups) : KeyOneIsMinimum(groups[g].gain_table)]_vars

----------------------------------------------------------------------------
(* Numerical properties of the gain selection                              *)

\* C12 as stated: once measure() has selected the gains, for every group the
\* selected gain times the group's maximum estimate-pass saturation is at most
\* 1 / (1 + GainMargin).
C12_MarginSafety ==
  Selected =>
    LET inst   == instances[rd]
        groups == InstanceChannelModes(inst)
    IN  \A g \in 1..Len(groups) :
          C1_WithinTarget(new_gains[g], C1_MaxSat(groups[g]), inst.config["GainMargin"])

\* C12, amended: for every group whose maximum estimate-pass saturation is
\* itself at most 1 / (1 + GainMargin), the selected gain times that
\* saturation is at most 1 / (1 + GainMargin); for every other group the
\* selected gain is 1 (the setting the estimate was read with).
C12_MarginSafetyAmended ==
  Selected =>
    LET inst   == instances[rd]
        groups == InstanceChannelModes(inst)
        margin == inst.config["GainMargin"]
    IN  \A g \in 1..Len(groups) :
          IF C1_WithinTarget(1, C1_MaxSat(groups[g]), margin)
          THEN C1_WithinTarget(new_gains[g], C1_MaxSat(groups[g]), margin)
          ELSE new_gains[g] = 1

\* A selection above 1 under a positive margin, with a larger key in the table
\* that the margin rules out but the full scale alone would allow
C12_Witness ==
  /\ Selected
  /\ instances[rd].config["GainMargin"] > 0
  /\ new_gains[1] > 1
  /\ LET group == InstanceChannelModes(instances[rd])[1]
     IN  \E k \in DOMAIN group.gain_table :
           /\ k > new_gains[1]
           /\ C1_WithinTarget(k, C1_MaxSat(group), 0)

----------------------------------------------------------------------------
(* Repeated measure() calls                                                *)

\* C13: under a constant light level on linear sensors, every measure() call
\* of an instance selects the gains its first returning call selected and
\* returns the mapping that call returned.
C13_Stable ==
  (InMeasure /\ light # None /\ rd \in DOMAIN first) =>
    /\ Selected => new_gains = first[rd].gains
    /\ pc = "returned" => ret = first[rd].ret

\* A later call of an instance has returned after a refinement pass, under
\* light that is neither dark nor at full scale
C13_Witness ==
  /\ InMeasure
  /\ light # None
  /\ light.n > 0
  /\ rd \in DOMAIN first
  /\ pc = "returned"
  /\ new_gains[1] > 1
  /\ NumReads(calls) = 2

----------------------------------------------------------------------------
(* Failures of sensor calls                                                *)

\* The sensor calls of one measure() in their fixed order: one
\* set_channel_mode per group, read_channels, one set_channel_mode per group,
\* read_channels.  TRUE iff the i-th call of an invocation on n groups is a
\* read_channels call.
C14_ReadPosition(i, n) == i = n + 1 \/ i = 2 * n + 2

\* C14, in every state: the calls of the running measure(), the raising call
\* included, are a prefix of the fixed order: no call is made a second time.
C14_NoRepeatedCall ==
  InMeasure =>
    LET n == Len(InstanceChannelModes(instances[rd]))
    IN  /\ Len(calls) <= 2 * n + 2
        /\ \A i \in 1..Len(calls) :
             (calls[i].op = "read_channels") <=> C14_ReadPosition(i, n)

\* C14, on the step after a call has raised: measure() and dispatch() are
\* left, the sensor object is not touched again, nothing is dispatched for the
\* instance.
C14_NoCallAfterRaise ==
  (InMeasure /\ pc = "raised") =>
    /\ pc' = "none"
    /\ rd' # rd
    /\ instances' = instances
    /\ sink' = sink

\* C14: when a set_channel_mode or read_channels call raises during measure(),
\* the exception leaves measure() and measure() makes no further sensor call
\* in that invocation.
C14_NoRetry == [](C14_NoRepeatedCall) /\ [][C14_NoCallAfterRaise]_vars

\* A second-pass set_channel_mode call has raised
C14_Witness ==
  /\ InMeasure
  /\ pc = "raised"
  /\ NumReads(calls) = 1
  /\ calls[Len(calls)].op = "set_channel_mode"

----------------------------------------------------------------------------
(* do_read                                                                 *)

\* The instance list keeps its instances in their places
C15_SameInstances ==
  /\ Len(instances') = Len(instances)
  /\ \A i \in 1..Len(instances) :
       /\ instances'[i].config = instances[i].config
       /\ instances'[i].bus = instances[i].bus

\* C15, step by step: while do_read runs
\*  - a raise of an instance's dispatch is followed by the next instance of
\*    the same do_read, not by the end of do_read;
\*  - the loop moves on by one instance at a time and ends only after the
\*    last instance;
\*  - no instance leaves the list;
\* and every do_read starts at the first instance again.
C15_Step ==
  /\ (InMeasure /\ pc = "raised") => (phase' = "read" /\ rd' = rd + 1)
  /\ phase = "read" =>
       /\ C15_SameInstances
       /\ rd' \in {rd, rd + 1, 0}
       /\ phase' \in {"read", "idle"}
       /\ phase' = "idle" => rd > Len(instances)
  /\ (phase = "idle" /\ phase' = "read") => rd' = 1

\* C15: when one instance's dispatch raises inside do_read, do_read does not
\* raise, every other instance of the list is still dispatched in that same
\* do_read, and the failing instance stays in the list and is attempted again
\* by the next do_read.
C15_FailedCycleSkipped == [][C15_Step]_vars

\* A do_read has ended in which the first instance failed and the second
\* one was dispatched
C15_Witness ==
  /\ phase = "idle"
  /\ Len(instances) >= 2
  /\ instances[1].config["LogRadiometric"]
  /\ \A e \in 1..Len(sink) : sink[e].instance # 1
  /\ \E e \in 1..Len(sink) : sink[e].instance = 2

----------------------------------------------------------------------------
(* Properties of the read_channels results                                 *)

\* The mappings read_channels has returned to the running measure()
ReadResults == {results_estimate, results} \ {EmptyMap}

\* 0 < saturation <= 1 for a saturation <<count + 1, max_count>>
C16_InRange(sat) == 0 < sat[1] /\ sat[1] <= sat[2]

\* C16: every saturation that read_channels() reports, for every driver and
\* every raw count from 0 to the largest count the sensor word holds, is
\* greater than 0 and at most 1.
C16_SaturationRange ==
  \A r \in ReadResults : \A name \in DOMAIN r : C16_InRange(r[name].saturation)

----------------------------------------------------------------------------
(* Properties of the selection loop and of the table construction          *)

\* The two estimates of the application agree on every channel of the group
C18_SameInGroup(group) ==
  \A n \in Range(ChannelNames(group)) :
    probe.estimates[1][n].saturation = probe.estimates[2][n].saturation

\* C18: two runs of the selection loop with the same gain tables and the same
\* GainMargin, whose estimates agree on the channels of a group, select the
\* same gain for that group, whatever the other group's channels read.
C18_GroupIndependence ==
  (probe.op = "select" /\ probe.done) =>
    \A g \in 1..Len(TwoGroupModes) :
      C18_SameInGroup(TwoGroupModes[g]) => probe.out[1][g] = probe.out[2][g]

\* Two runs that agree on the first group, where the second group reads
\* more light than the first group in one run and less in the other, and is
\* given different gains in the two runs
C18_Witness ==
  /\ probe.op = "select"
  /\ probe.done
  /\ C18_SameInGroup(TwoGroupModes[1])
  /\ probe.out[1][1] = 4
  /\ probe.out[1][2] # probe.out[2][2]
  /\ probe.estimates[1]["B1"].saturation[1] > probe.estimates[1]["A1"].saturation[1]
  /\ probe.estimates[1]["B1"].saturation[1] > probe.estimates[1]["A2"].saturation[1]
  /\ probe.estimates[2]["B1"].saturation[1] < probe.estimates[2]["A1"].saturation[1]

\* The key _gain_table_from_product files a pair under
C19_Key(again, itime) == Round(again * itime, SetMin(Range(probe.itimes)))

\* C19: in the table built from any analog gains and integration times, in
\* any order, the entry of a key holds the longest integration time among the
\* pairs with that key.
C19_TieBreak ==
  (probe.op = "table" /\ probe.done) =>
    \A again \in Range(probe.agains) : \A itime \in Range(probe.itimes) :
      LET key == C19_Key(again, itime)
      IN  /\ key \in DOMAIN probe.out
          /\ C19_Key(probe.out[key][1], probe.out[key][2]) = key
          /\ probe.out[key][2] >= itime

\* A table built from integration times handed over longest first, with two
\* pairs of different integration times under one key
C19_Witness ==
  /\ probe.op = "table"
  /\ probe.done
  /\ Len(probe.itimes) >= 2
  /\ probe.itimes[1] > probe.itimes[2]
  /\ \E a1, a2 \in Range(probe.agains) :
       /\ a1 # a2
       /\ C19_Key(a1, probe.itimes[1]) = C19_Key(a2, probe.itimes[2])
       /\ probe.out[C19_Key(a1, probe.itimes[1])] = <<a1, probe.itimes[1]>>

----------------------------------------------------------------------------
(* Properties of do_config as a whole                                      *)

\* TRUE iff the value is of the type the config key is declared with; a
\* boolean counts as a number iff bool_is_number
C20_HasType(val, expected_type, bool_is_number) ==
  CASE expected_type = "bus"      -> val.t = "str"
    [] expected_type = "driver"   -> val.t = "str" /\ sanitize_driver_name(val.s) \in drivers
    [] expected_type = "integer_expression" -> val.t = "str" /\ val.s \in IntLiterals
    [] expected_type = "number"   -> val.t \in {"float", "int"} \/ (bool_is_number /\ val.t = "bool")
    [] expected_type = "fraction" -> val.t = "float" /\ val.n >= 0 /\ val.n <= 1000
    [] expected_type = "boolean"  -> val.t = "bool"

C20_KnownKey(node) == \E k \in DOMAIN config_keys : lower(k) = lower(node.key)

\* A block with an unknown key, a key with other than one value, a value of
\* the wrong type, no Driver or no Bus
C20_Invalid(children, bool_is_number) ==
  \/ \E i \in 1..Len(children) :
       \/ ~C20_KnownKey(children[i])
       \/ Len(children[i].values) # 1
       \/ ~C20_HasType(children[i].values[1],
                       config_keys[VariableOfKey(lower(children[i].key))][1], bool_is_number)
  \/ ~\E i \in 1..Len(children) : lower(children[i].key) = "driver"
  \/ ~\E i \in 1..Len(children) : lower(children[i].key) = "bus"

\* A step of do_config on the block `block'`: an invalid block raises and
\* leaves configs as it was, a valid block appends one config
C20_Step(bool_is_number) ==
  (phase = "config" /\ phase' # "init") =>
    IF C20_Invalid(block', bool_is_number)
    THEN phase' = "terminated" /\ configs' = configs
    ELSE /\ phase' = "config"
         /\ Len(configs') = Len(configs) + 1
         /\ SubSeq(configs', 1, Len(configs)) = configs

\* C20: a config block with an unknown key, a key with other than exactly one
\* value, a value that is not of the key's type (a string, a number, a
\* fraction, a boolean), or without Driver or Bus makes do_config raise with
\* configs unchanged; any other block appends exactly one config.
C20_ConfigAtomic == [][C20_Step(FALSE)]_vars

\* The same with True and False counted as numbers, as isinstance(val, int) does
C20_ConfigAtomicBoolAsNumber == [][C20_Step(TRUE)]_vars

\* A boolean was accepted for a key declared as a number
C20_BoolAccepted ==
  /\ \E i \in 1..Len(block) :
       /\ C20_KnownKey(block[i])
       /\ config_keys[VariableOfKey(lower(block[i].key))][1] = "number"
       /\ Len(block[i].values) = 1
       /\ block[i].values[1].t = "bool"
  /\ phase = "config"
  /\ Len(configs) > 0
  /\ "MaxIntegrationTime" \in DOMAIN configs[Len(configs)]
  /\ configs[Len(configs)]["MaxIntegrationTime"] = 1000

----------------------------------------------------------------------------
(* Properties of the mapping measure() returns                             *)

\* measure() has returned: ret is the mapping handed to dispatch
Returned == InMeasure /\ pc = "returned"

\* The saturation guard replaced the channel's entry by its estimate entry
C21_Reverted(name) ==
  /\ DOMAIN results # {}
  /\ Saturated(results[name].saturation, instances[rd].config["MaxSaturation"])

\* The channels of a group that the returned mapping holds
C21_Names(group) == Range(ChannelNames(group)) \cap DOMAIN ret

\* C21: in every mapping measure() returns, all channels of one channel group
\* report the same again and the same itime.
C21_GroupConsistent ==
  Returned =>
    \A g \in 1..Len(InstanceChannelModes(instances[rd])) :
      \A a, b \in C21_Names(InstanceChannelModes(instances[rd])[g]) :
        ret[a].again = ret[b].again /\ ret[a].itime = ret[b].itime

\* C21 as amended: a channel the saturation guard reverted reports the
\* gain_table[1] setting of its group and every other channel the setting
\* selected for its group, so the channels of a group report the same again
\* and itime unless the guard reverted some of them and not the others.
C21_GroupConsistentAmended ==
  Returned =>
    \A g \in 1..Len(InstanceChannelModes(instances[rd])) :
      LET group == InstanceChannelModes(instances[rd])[g]
      IN  /\ \A a \in C21_Names(group) :
               LET key == IF C21_Reverted(a) THEN 1 ELSE new_gains[g]
               IN  /\ ret[a].again = group.gain_table[key][1]
                   /\ ret[a].itime = group.gain_table[key][2]
          /\ \A a, b \in C21_Names(group) :
               (C21_Reverted(a) <=> C21_Reverted(b)) =>
                 ret[a].again = ret[b].again /\ ret[a].itime = ret[b].itime

\* A return after a second pass in which the guard reverted one channel of a
\* group and kept another
C21_Witness ==
  /\ Returned
  /\ \E a, b \in C21_Names(InstanceChannelModes(instances[rd])[1]) :
       /\ C21_Reverted(a)
       /\ ~C21_Reverted(b)
       /\ ret[a].itime # ret[b].itime

\* The result of the last read_channels() call of the running measure()
C22_LastRead == IF DOMAIN results # {} THEN results ELSE results_estimate

\* C22: every entry of the mapping measure() returns is the entry the sensor
\* returned for that channel in the estimate pass or in the refinement pass
\* of the same call, and the keys returned are the keys of the last
\* read_channels() result.
C22_Provenance ==
  Returned =>
    /\ DOMAIN ret = DOMAIN C22_LastRead
    /\ \A name \in DOMAIN ret :
         \/ name \in DOMAIN results_estimate /\ ret[name] = results_estimate[name]
         \/ name \in DOMAIN results /\ ret[name] = results[name]

\* A returned mapping that is neither of the two read_channels() results:
\* some entries are of the estimate pass and some of the refinement pass
C22_Witness ==
  /\ Returned
  /\ DOMAIN results # {}
  /\ ret # results
  /\ ret # results_estimate
  /\ results # results_estimate

\* The indices of the sink entries of the instance measured now
C23_Own(s) == {k \in 1..Len(s) : s[k].instance = rd}

\* While the exception of measure() is on its way to do_read, the sink holds
\* no value of the instance
C23_NoneWhenRaised == (InMeasure /\ pc = "raised") => C23_Own(sink) = {}

\* Values of an instance reach the sink only in the step after its measure()
\* returned; the step that handles the exception dispatches nothing
C23_Step ==
  /\ (InMeasure /\ pc = "raised") => sink' = sink
  /\ Len(sink') > Len(sink) =>
       /\ pc = "returned"
       /\ SubSeq(sink', 1, Len(sink)) = sink
       /\ \A k \in (Len(sink) + 1)..Len(sink') : sink'[k].instance = rd

\* C23: when measure() raises during Instance.dispatch, no value of that
\* instance is dispatched to the sink in that cycle.
C23_AllOrNothing == [](C23_NoneWhenRaised) /\ [][C23_Step]_vars

\* measure() raised after its first read_channels() had returned, in a cycle
\* in which another instance has dispatched its values
C23_Witness ==
  /\ InMeasure
  /\ pc = "raised"
  /\ DOMAIN results_estimate # {}
  /\ Len(sink) > 0

----------------------------------------------------------------------------
(* Properties of the construction-time filter                              *)

\* The gain tables the filter of a config is applied to: those the driver
\* classes declare and those they hold now
C24_Tables(d) ==
  {DeclaredChannelModes(d)[g].gain_table : g \in 1..Len(DeclaredChannelModes(d))}
    \cup {channel_modes[d][g].gain_table : g \in 1..Len(channel_modes[d])}

\* A second application of the filter of a config leaves the table as the
\* first application left it
C24_Idempotent ==
  \A c \in 1..Len(configs) : \A table \in C24_Tables(configs[c]["Driver"]) :
    LET once == FilterGainTable(table, configs[c])
    IN  FilterGainTable(once, configs[c]) = once

\* A construction for a bus of a config, after the construction for an
\* earlier bus of the same config has run its filter, leaves the tables of
\* the driver as they are
C24_Step ==
  (phase = "init" /\ init_pos[1] <= Len(configs) /\ init_pos' # init_pos) =>
    LET config == configs[init_pos[1]]
    IN  (\E b \in 1..(init_pos[2] - 1) : config["Bus"][b] \notin broken_buses) =>
          channel_modes' = channel_modes

\* C24: the construction-time filter of a config applied to a table it has
\* filtered already leaves it unchanged, so the instances created for the
\* buses of one config block are given the same permitted table.
C24_FilterIdempotent == [](C24_Idempotent) /\ [][C24_Step]_vars

\* Two instances of one config on two buses, with a table the filter has
\* shortened and not emptied
C24_Witness ==
  \E i, j \in 1..Len(instances) :
    /\ i # j
    /\ instances[i].config = instances[j].config
    /\ instances[i].bus # instances[j].bus
    /\ "MaxIntegrationTime" \in DOMAIN instances[i].config
    /\ LET d == instances[i].driver_name
       IN  /\ DOMAIN channel_modes[d][1].gain_table # {}
           /\ DOMAIN channel_modes[d][1].gain_table # DOMAIN DeclaredChannelModes(d)[1].gain_table

----------------------------------------------------------------------------
(* Properties of the air quality plugin and its poll thread                *)

\* The poll thread is inside an iteration of its loop
InPollIteration == poll_thread \in {"acquire", "clear", "sensors"}

\* C25: data_lock is free whenever neither read() nor an iteration of the
\* poll loop is executing, also after a read() that ended because
\* vl.dispatch() raised.
C25_LockReleased ==
  (sgp30_pc.read = "idle" /\ ~InPollIteration) => data_lock = "free"

\* C26: no sample set stored by one iteration of the poll loop is dispatched
\* by two read() calls, and data is empty when read() returns.
C26_OncePerSample ==
  \A a, b \in sgp30_log.sink : a.poll = b.poll => a.read = b.read

C26_EmptyAtReturn ==
  (sgp30_pc.read = "release" /\ sgp30_pc'.read = "idle") => data' = <<>>

C26_ConsumedOnce == [](C26_OncePerSample) /\ [][C26_EmptyAtReturn]_vars

\* Two read() calls have dispatched samples, of two iterations of the poll
\* loop, and the second has returned
C26_Witness ==
  /\ \E a, b \in sgp30_log.sink : a.read = 1 /\ b.read = 2 /\ a.poll # b.poll
  /\ sgp30_pc.read = "idle"
  /\ data_lock = "free"
  /\ data = <<>>

\* shutdown() has been called and has not returned
C27_ShuttingDown == sgp30_pc.shutdown \in {"check", "join"}

\* A shutdown() that finds the poll thread not started returns without joining
C27_NoJoinUnstarted ==
  (sgp30_pc.shutdown = "check" /\ poll_thread = "initial") => sgp30_pc'.shutdown # "join"

\* C27: after shutdown() is called the poll thread leaves its loop and
\* shutdown() returns, whatever read() does meanwhile; when the poll thread
\* was never started shutdown() returns without joining.
C27_ShutdownLiveness ==
  /\ C27_ShuttingDown ~> (sgp30_pc.shutdown = "returned" /\ ~is_alive)
  /\ [][C27_NoJoinUnstarted]_vars

\* C28: no get_air_quality() call of a sensor raises SensorNotReadyError
\* after a call of that sensor has returned a reading, also when the reading
\* is (400, 0) again.
C28_ReadinessLatch ==
  \A i \in 1..Len(sgp30_log.last) :
    sgp30_log.last[i].before => sgp30_log.last[i].outcome # "SensorNotReadyError"

\* A sensor that had returned a reading has now returned the reading (400, 0)
C28_Witness ==
  \E i \in 1..Len(sgp30_log.last) :
    /\ sgp30_log.last[i].before
    /\ sgp30_log.last[i].outcome = "returned"
    /\ sgp30_log.last[i].eco2 = 400
    /\ sgp30_log.last[i].tvoc = 0
====
